---- MODULE Spec2Model ----
(***************************************************************************)
(* Model of the assistant-agent backend: the in-memory session store       *)
(* (app/memory.py), the intent router (app/agent.py, app/tools.py), the    *)
(* HTTP handlers (app/main.py) and the channel relay's outbox loop         *)
(* (scripts/discord_full_bot.py, scripts/discord_reply_sender.py).         *)
(*                                                                         *)
(* Texts are TLA+ strings; TLC evaluates Len, Head, Tail, SubSeq and \o on *)
(* them, so the router's string handling is computed character by          *)
(* character as the Python code does it.                                   *)
(***************************************************************************)
EXTENDS Integers, Sequences, FiniteSets, TLC

(***************************************************************************)
(* String helpers (Python str methods and the re patterns of agent.py)     *)
(***************************************************************************)

\* Python's whitespace class (str.strip(), str.split(), regex \s), restricted
\* to the characters the model's inputs use.
Whitespace == {" ", "\t"}

UpperChars == "ABCDEFGHIJKLMNOPQRSTUVWXYZ"

LowerChars == "abcdefghijklmnopqrstuvwxyz"

Digits == {"0", "1", "2", "3", "4", "5", "6", "7", "8", "9"}

Ch(s, i) == SubSeq(s, i, i)

\* str.lower() on one character
lowerChar(c) ==
    IF \E i \in 1..Len(UpperChars) : Ch(UpperChars, i) = c
    THEN Ch(LowerChars, CHOOSE i \in 1..Len(UpperChars) : Ch(UpperChars, i) = c)
    ELSE c

RECURSIVE lower(_)
\* str.lower()
lower(s) == IF s = "" THEN "" ELSE lowerChar(Head(s)) \o lower(Tail(s))

RECURSIVE lstripChars(_, _)
lstripChars(s, cs) ==
    IF s = "" THEN ""
    ELSE IF Head(s) \in cs THEN lstripChars(Tail(s), cs) ELSE s

RECURSIVE rstripChars(_, _)
rstripChars(s, cs) ==
    IF s = "" THEN ""
    ELSE IF Ch(s, Len(s)) \in cs THEN rstripChars(SubSeq(s, 1, Len(s) - 1), cs) ELSE s

\* str.strip(chars)
stripChars(s, cs) == rstripChars(lstripChars(s, cs), cs)

\* str.strip()
strip(s) == stripChars(s, Whitespace)

RECURSIVE normSpaces(_)
\* re.sub(r"\s+", " ", s): every run of whitespace becomes one space
normSpaces(s) ==
    IF s = "" THEN ""
    ELSE IF Head(s) \in Whitespace
         THEN " " \o normSpaces(lstripChars(s, Whitespace))
         ELSE Head(s) \o normSpaces(Tail(s))

\* variant of startswith: p anywhere in s
startswith_anywhere(s, p) ==
    \E i \in 1..(Len(s) - Len(p) + 1) : SubSeq(s, i, i + Len(p) - 1) = p

\* str.startswith(p)
startswith(s, p) == Len(s) >= Len(p) /\ SubSeq(s, 1, Len(p)) = p

\* p in s
contains(s, p) ==
    \E i \in 1..(Len(s) - Len(p) + 1) : SubSeq(s, i, i + Len(p) - 1) = p

\* index of the first occurrence of p in s, 0 when there is none (str.find + 1)
find(s, p) ==
    IF contains(s, p)
    THEN CHOOSE i \in 1..(Len(s) - Len(p) + 1) :
            /\ SubSeq(s, i, i + Len(p) - 1) = p
            /\ \A j \in 1..(i - 1) : SubSeq(s, j, j + Len(p) - 1) # p
    ELSE 0

RECURSIVE splitLast(_, _, _)
\* s.split(sep, n)[-1]: what is left after cutting at most n times at sep
splitLast(s, sep, n) ==
    IF n = 0 \/ find(s, sep) = 0 THEN s
    ELSE splitLast(SubSeq(s, find(s, sep) + Len(sep), Len(s)), sep, n - 1)

\* the first whitespace-delimited word of s (s has no leading whitespace)
firstWord(s) ==
    IF \E i \in 1..Len(s) : Ch(s, i) \in Whitespace
    THEN SubSeq(s, 1, (CHOOSE i \in 1..Len(s) :
                          /\ Ch(s, i) \in Whitespace
                          /\ \A j \in 1..(i - 1) : Ch(s, j) \notin Whitespace) - 1)
    ELSE s

RECURSIVE words(_)
\* str.split(): the whitespace-delimited words of s, in order
words(s) ==
    LET t == lstripChars(s, Whitespace)
    IN  IF t = "" THEN <<>>
        ELSE <<firstWord(t)>> \o words(SubSeq(t, Len(firstWord(t)) + 1, Len(t)))

RECURSIVE join(_, _)
\* sep.join(ws)
join(ws, sep) ==
    IF ws = <<>> THEN ""
    ELSE IF Len(ws) = 1 THEN ws[1]
    ELSE ws[1] \o sep \o join(Tail(ws), sep)

RECURSIVE allDigits(_)
allDigits(s) == s = "" \/ (Head(s) \in Digits /\ allDigits(Tail(s)))

\* the pattern [+-]?\d+
isSignedInt(s) ==
    /\ s # ""
    /\ IF Head(s) \in {"+", "-"} THEN Len(s) > 1 /\ allDigits(Tail(s)) ELSE allDigits(s)

digitVal(c) ==
    CASE c = "0" -> 0 [] c = "1" -> 1 [] c = "2" -> 2 [] c = "3" -> 3 [] c = "4" -> 4
      [] c = "5" -> 5 [] c = "6" -> 6 [] c = "7" -> 7 [] c = "8" -> 8 [] c = "9" -> 9

RECURSIVE natVal(_)
natVal(s) == IF s = "" THEN 0 ELSE natVal(SubSeq(s, 1, Len(s) - 1)) * 10 + digitVal(Ch(s, Len(s)))

\* variant of intVal that drops the sign
intVal_unsigned(s) ==
    IF Head(s) \in {"+", "-"} THEN natVal(Tail(s)) ELSE natVal(s)

\* int(s) for a string isSignedInt accepts
intVal(s) ==
    IF Head(s) = "-" THEN 0 - natVal(Tail(s))
    ELSE IF Head(s) = "+" THEN natVal(Tail(s))
    ELSE natVal(s)

\* f"{n}" for an integer
fmtInt(n) == ToString(n)

(***************************************************************************)
(* Bounds of the model and the program's constants                         *)
(***************************************************************************)

\* session ids the requests use
Sessions == {"s1", "s2"}

\* DISCORD_SESSION_ID, the session /integrations/discord/inbound is bound to
DiscordSessionId == "s1"

\* SESSION_ID, the session the relay polls and posts the channel's messages to
RelaySession == "s1"

\* get_history's limit in handle_message
HistoryLimit == 12

\* list_outbox's default limit
OutboxLimit == 20

\* add_reminder's default horizon, in minutes
DefaultHorizon == 60

\* the marks of a completed and of an open item in a listing (U+2713 and
\* U+2022 in the source; ASCII here)
CheckMark == "v"

Bullet == "*"

\* chat and channel requests received in a run, at most
MaxReqs == 2

\* failed delivery attempts recorded on one entry, at most
MaxAttempts == 2

\* physical sends of the relay in a run, at most
MaxSends == 3
\* failed physical sends of the relay in a run, at most
MaxFails == 2

\* entries of the outbox the listing is tried on, at most
MaxOutboxLen == 21

\* uuid.uuid4(): the n-th id drawn
NewId(n) == "u" \o ToString(n + 1)

VARIABLES
    sessions,     \* InMemorySessionStore._sessions: session id -> Message list
    tasks,        \* ._tasks
    reminders,    \* ._reminders
    checkins,     \* ._checkins
    outbox,       \* ._outbox
    inbox,        \* ._inbox
    nextId,       \* number of ids drawn so far (uuid.uuid4 calls)
    now,          \* the clock, in minutes
    req,          \* the requests in flight: slot -> payload, position, locals
    resp,         \* the last response the backend gave
    started,      \* number of chat and channel requests received so far
    relay_pc,     \* the relay's outbox loop: "poll" or "send"
    relay_batch,  \* the undelivered entries of the relay's last poll, left to send
    sent,         \* the channel: ids of the entries physically sent, in order
    failed,       \* ids of the entries whose physical send failed, in order
    poller        \* the channel and the poller script's state file and last run

store_vars == <<sessions, tasks, reminders, checkins, outbox, inbox, nextId>>

relay_vars == <<relay_pc, relay_batch, sent, failed, poller>>

vars == <<sessions, tasks, reminders, checkins, outbox, inbox, nextId, now,
          req, resp, started, relay_pc, relay_batch, sent, failed, poller>>

(***************************************************************************)
(* The store (app/memory.py). Each operator is one method, which runs      *)
(* under the store's lock: it gives the new value of the map it writes.    *)
(* A session with no entry in a dict is a session with the empty list.     *)
(***************************************************************************)

\* the last n elements of a list (lst[-n:], n > 0)
lastN(lst, n) == IF Len(lst) <= n THEN lst ELSE SubSeq(lst, Len(lst) - n + 1, Len(lst))

get_history(s, limit) == lastN(sessions[s], limit)

append(s, role, content) ==
    [sessions EXCEPT ![s] = Append(@, [role |-> role, content |-> content, ts |-> now])]

add_task(s, title) ==
    [tasks EXCEPT ![s] = Append(@, [id |-> NewId(nextId), title |-> strip(title),
                                     completed |-> FALSE, ts |-> now])]

list_tasks(s) == tasks[s]

\* variant of indexOf: an id of no item is taken for the first item's
indexOf_orFirst(lst, id) ==
    IF \E i \in 1..Len(lst) : lst[i].id = id
    THEN CHOOSE i \in 1..Len(lst) : lst[i].id = id /\ \A j \in 1..(i - 1) : lst[j].id # id
    ELSE IF lst = <<>> THEN 0 ELSE 1

\* the first item of lst whose id is id, 0 when there is none
indexOf(lst, id) ==
    IF \E i \in 1..Len(lst) : lst[i].id = id
    THEN CHOOSE i \in 1..Len(lst) :
            lst[i].id = id /\ \A j \in 1..(i - 1) : lst[j].id # id
    ELSE 0

\* variant of complete_task that flips the flag
complete_task_toggle(s, task_id) ==
    IF indexOf(tasks[s], task_id) = 0 THEN tasks
    ELSE [tasks EXCEPT ![s][indexOf(tasks[s], task_id)].completed = ~@]

complete_task(s, task_id) ==
    IF indexOf(tasks[s], task_id) = 0 THEN tasks
    ELSE [tasks EXCEPT ![s][indexOf(tasks[s], task_id)].completed = TRUE]

add_reminder(s, text, due_ts) ==
    [reminders EXCEPT ![s] = Append(@, [id |-> NewId(nextId), text |-> strip(text),
                                         due_ts |-> due_ts, completed |-> FALSE,
                                         ts |-> now])]

list_reminders(s) == reminders[s]

complete_reminder(s, reminder_id) ==
    IF indexOf(reminders[s], reminder_id) = 0 THEN reminders
    ELSE [reminders EXCEPT ![s][indexOf(reminders[s], reminder_id)].completed = TRUE]

add_checkin(s, mood, energy, focus, note) ==
    [checkins EXCEPT ![s] = Append(@, [id |-> NewId(nextId), mood |-> mood,
                                        energy |-> energy, focus |-> focus,
                                        note |-> note, ts |-> now])]

list_checkins(s, limit) == lastN(checkins[s], limit)

\* variant of add_outbox: the new entry starts with one attempt counted
add_outbox_counted(s, text, reason) ==
    [outbox EXCEPT ![s] = Append(@, [id |-> NewId(nextId), text |-> text,
                                      reason |-> reason, ts |-> now,
                                      delivered |-> FALSE, attempts |-> 1])]

add_outbox(s, text, reason) ==
    [outbox EXCEPT ![s] = Append(@, [id |-> NewId(nextId), text |-> text,
                                      reason |-> reason, ts |-> now,
                                      delivered |-> FALSE, attempts |-> 0])]

list_outbox(s, limit) == lastN(outbox[s], limit)

\* variant of mark_delivered: the entry is looked up in every session
mark_delivered_anySession(s, message_id) ==
    [t \in Sessions |->
        [i \in 1..Len(outbox[t]) |->
            IF outbox[t][i].id = message_id
            THEN [outbox[t][i] EXCEPT !.delivered = TRUE] ELSE outbox[t][i]]]

\* variant of mark_delivered: delivering also resets the attempt counter
mark_delivered_reset(s, message_id) ==
    IF indexOf(outbox[s], message_id) = 0 THEN outbox
    ELSE [outbox EXCEPT ![s][indexOf(outbox[s], message_id)] =
             [@ EXCEPT !.delivered = TRUE, !.attempts = 0]]

mark_delivered(s, message_id) ==
    IF indexOf(outbox[s], message_id) = 0 THEN outbox
    ELSE [outbox EXCEPT ![s][indexOf(outbox[s], message_id)].delivered = TRUE]

\* variant of increment_outbox_attempt: m.attempts = 1 instead of += 1
increment_outbox_attempt_set(s, message_id) ==
    IF indexOf(outbox[s], message_id) = 0 THEN outbox
    ELSE [outbox EXCEPT ![s][indexOf(outbox[s], message_id)].attempts = 1]

increment_outbox_attempt(s, message_id) ==
    IF indexOf(outbox[s], message_id) = 0 THEN outbox
    ELSE [outbox EXCEPT ![s][indexOf(outbox[s], message_id)].attempts = @ + 1]

\* variant of increment_outbox_attempt_result: 0 instead of the sentinel
increment_outbox_attempt_result_zero(s, message_id) ==
    IF indexOf(outbox[s], message_id) = 0 THEN 0
    ELSE outbox[s][indexOf(outbox[s], message_id)].attempts + 1

\* what increment_outbox_attempt returns
increment_outbox_attempt_result(s, message_id) ==
    IF indexOf(outbox[s], message_id) = 0 THEN -1
    ELSE outbox[s][indexOf(outbox[s], message_id)].attempts + 1

\* add_inbound with inbound_id given, and append_inbound: both append the
\* record without looking at the ids the inbox holds
add_inbound(s, author, text, source, inbound_id) ==
    [inbox EXCEPT ![s] = Append(@, [id |-> inbound_id, source |-> source,
                                     author |-> author, text |-> strip(text),
                                     ts |-> now])]

has_inbound_id(s, inbound_id) == \E i \in 1..Len(inbox[s]) : inbox[s][i].id = inbound_id

(***************************************************************************)
(* The tools (app/tools.py) and the router (app/agent.py)                  *)
(***************************************************************************)

\* What one call of handle_message does: it returns reply (kind "ok") or
\* raises (kind "raise"), and leaves the store's tasks, reminders, check-ins
\* and id counter as given.
Outcome(kind, reply, tk, rm, ck, nid) ==
    [kind |-> kind, reply |-> reply, tasks |-> tk, reminders |-> rm,
     checkins |-> ck, nextId |-> nid]

NoWrite(kind, reply) == Outcome(kind, reply, tasks, reminders, checkins, nextId)

\* add_task_tool: a missing (empty) title is refused before the store is called
add_task_tool(s, title) ==
    IF title = "" THEN NoWrite("ok", "")
    ELSE Outcome("ok", "", add_task(s, title), reminders, checkins, nextId + 1)

\* variant of add_reminder_tool that ignores the minutes
add_reminder_tool_untimed(s, text, timed, minutes) ==
    IF text = "" THEN NoWrite("ok", "")
    ELSE Outcome("ok", "", tasks, add_reminder(s, text, now + DefaultHorizon),
                 checkins, nextId + 1)

\* add_reminder_tool: timed is whether args carries minutes
add_reminder_tool(s, text, timed, minutes) ==
    IF text = "" THEN NoWrite("ok", "")
    ELSE Outcome("ok", "", tasks,
                 add_reminder(s, text, IF timed THEN now + minutes ELSE now + DefaultHorizon),
                 checkins, nextId + 1)

\* the text of a completed flag in a listing
mark(completed) == IF completed THEN CheckMark ELSE Bullet

\* variant of taskLines: latest task first
taskLines_reversed(ts) ==
    [i \in 1..Len(ts) |->
        ts[Len(ts) + 1 - i].id \o " | " \o mark(ts[Len(ts) + 1 - i].completed) \o " "
        \o ts[Len(ts) + 1 - i].title]

RECURSIVE taskLines(_)
taskLines(ts) ==
    IF ts = <<>> THEN <<>>
    ELSE <<ts[1].id \o " | " \o mark(ts[1].completed) \o " " \o ts[1].title>>
         \o taskLines(Tail(ts))

RECURSIVE reminderLines(_)
reminderLines(rs) ==
    IF rs = <<>> THEN <<>>
    ELSE <<rs[1].id \o " | " \o mark(rs[1].completed) \o " " \o rs[1].text
           \o " (due " \o fmtInt(rs[1].due_ts) \o ")">>
         \o reminderLines(Tail(rs))

RECURSIVE countOpen(_)
\* sum(1 for x in lst if not x.completed)
countOpen(lst) ==
    IF lst = <<>> THEN 0
    ELSE (IF lst[1].completed THEN 0 ELSE 1) + countOpen(Tail(lst))

\* the value kv[key] of the check-in's key=value words: the last word that
\* carries the key wins; dflt when there is none
RECURSIVE kvGet(_, _, _)
kvGet(parts, key, dflt) ==
    IF parts = <<>> THEN dflt
    ELSE LET p == parts[Len(parts)]
         IN  IF contains(p, "=") /\ lower(strip(SubSeq(p, 1, find(p, "=") - 1))) = key
             THEN strip(SubSeq(p, find(p, "=") + 1, Len(p)))
             ELSE kvGet(SubSeq(parts, 1, Len(parts) - 1), key, dflt)

\* _generate_mock
generate_mock(user_message, s, history) ==
    LET text == strip(user_message)
        users == {i \in 1..Len(history) : history[i].role = "user"}
        last_user == IF users = {} THEN ""
                     ELSE history[CHOOSE i \in users : \A j \in users : j <= i].content
    IN  IF text = "" THEN "Say something and I'll respond."
        ELSE IF last_user # "" /\ last_user # text
        THEN "[MOCK LLM] (session=" \o s \o ") Earlier you said: '" \o last_user
             \o "'. Now you said: '" \o text \o "'."
        ELSE "[MOCK LLM] (session=" \o s \o ") Replying to: " \o text

\* what a configured provider (Anthropic, OpenAI) may answer: any text
ProviderReplies == {" ", "Sure."}

\* generate_reply: the provider's answer, or the mock's when no provider is
\* configured or its call raises
generate_reply(user_message, s, history) ==
    ProviderReplies \cup {generate_mock(user_message, s, history)}

\* The fallback of handle_message. The list comprehension subscripts each
\* Message of get_history (m["role"]); Message is a dataclass, so it raises
\* TypeError as soon as the history holds one message.
fallback(text, s) ==
    IF get_history(s, HistoryLimit) # <<>> THEN {NoWrite("raise", "TypeError")}
    ELSE {NoWrite("ok", r) : r \in generate_reply(text, s, <<>>)}

\* with_reply: the outcome o with its reply set
withReply(o, reply) == [o EXCEPT !.reply = reply]

\* variant of m_task without the test of line 92
m_task_unguarded(text) ==
    Len(words(text)) = 2 /\ lower(words(text)[1]) = "complete"

\* agent.py:47-48: ^\s*complete\s+reminder\s+(\S+)\s*$ matches msg_norm
m_rem(msg_norm) ==
    /\ Len(words(msg_norm)) = 3
    /\ lower(words(msg_norm)[1]) = "complete"
    /\ lower(words(msg_norm)[2]) = "reminder"

\* agent.py:88-92: ^\s*complete\s+(\S+)\s*$ matches text and the word after
\* "complete" is not "reminder"
m_task(text) ==
    /\ Len(words(text)) = 2
    /\ lower(words(text)[1]) = "complete"
    /\ lower(words(text)[2]) # "reminder"

handle_message(text, s) ==
    LET msg == strip(text)
        msg_norm == normSpaces(msg)
        low == lower(msg_norm)
        w == words(msg_norm)
        wl == [i \in 1..Len(w) |-> lower(w[i])]
        tw == words(text)
        timed == /\ Len(w) >= 7
                 /\ wl[1] = "remind" /\ wl[2] = "me" /\ wl[3] = "in"
                 /\ isSignedInt(w[4])
                 /\ wl[5] \in {"minute", "minutes"}
                 /\ wl[6] = "to"
        untimed == /\ Len(w) >= 4
                   /\ wl[1] = "remind" /\ wl[2] = "me" /\ wl[3] = "to"
        trimmed(x) == stripChars(x, {" ", ".", "!", "?"})
        rest == stripChars(splitLast(text, "check in", 1), {" ", ":"})
        parts == words(rest)
        energy == kvGet(parts, "energy", "5")
        focus == kvGet(parts, "focus", "5")
        last == list_checkins(s, 1)
    IN
    IF startswith(low, "add task") \/ startswith(low, "todo")
       \/ startswith(low, "remember to")
    THEN LET title == IF startswith(low, "add task") THEN splitLast(text, " ", 2)
                      ELSE splitLast(text, " ", 1)
         IN  {withReply(add_task_tool(s, title), "Task added: " \o title)}
    ELSE IF startswith(low, "remind me") /\ timed
    THEN LET text_after == trimmed(join(SubSeq(w, 7, Len(w)), " "))
         IN  {withReply(add_reminder_tool(s, text_after, TRUE, intVal(w[4])),
                        "Reminder set in " \o fmtInt(intVal(w[4])) \o " minutes: "
                        \o text_after)}
    ELSE IF startswith(low, "remind me") /\ untimed
    THEN LET text_after == trimmed(join(SubSeq(w, 4, Len(w)), " "))
         IN  {withReply(add_reminder_tool(s, text_after, FALSE, 0),
                        "Reminder set: " \o text_after)}
    ELSE IF contains(low, "list reminders") \/ contains(low, "my reminders")
    THEN IF list_reminders(s) = <<>> THEN {NoWrite("ok", "You have no reminders.")}
         ELSE {NoWrite("ok", join(reminderLines(list_reminders(s)), "\n"))}
    ELSE IF m_rem(msg_norm)
    THEN {Outcome("ok",
                  IF indexOf(reminders[s], w[3]) # 0 THEN "Reminder completed."
                  ELSE "Reminder not found.",
                  tasks, complete_reminder(s, w[3]), checkins, nextId)}
    ELSE IF startswith(low, "check in")
    THEN IF isSignedInt(energy) /\ isSignedInt(focus)
         THEN {Outcome("ok", "Check-in recorded.", tasks, reminders,
                       add_checkin(s, kvGet(parts, "mood", "ok"), intVal(energy),
                                   intVal(focus), kvGet(parts, "note", "")),
                       nextId + 1)}
         ELSE {NoWrite("raise", "ValueError")}
    ELSE IF low \in {"today", "dashboard", "what's my plan", "whats my plan"}
    THEN {NoWrite("ok",
                  "Open tasks: " \o fmtInt(countOpen(list_tasks(s)))
                  \o " | Open reminders: " \o fmtInt(countOpen(list_reminders(s)))
                  \o " | "
                  \o (IF last = <<>> THEN "no recent check-in"
                      ELSE "last check-in mood=" \o last[1].mood \o " energy="
                           \o fmtInt(last[1].energy)))}
    ELSE IF contains(low, "list tasks") \/ contains(low, "my tasks")
    THEN IF list_tasks(s) = <<>> THEN {NoWrite("ok", "You have no tasks.")}
         ELSE {NoWrite("ok", join(taskLines(list_tasks(s)), "\n"))}
    ELSE IF m_task(text)
    THEN {Outcome("ok",
                  IF indexOf(tasks[s], tw[2]) # 0 THEN "Task completed."
                  ELSE "Task not found.",
                  complete_task(s, tw[2]), reminders, checkins, nextId)}
    ELSE fallback(text, s)

(***************************************************************************)
(* The HTTP handlers (app/main.py)                                         *)
(*                                                                         *)
(* /chat, /integrations/discord/ingest and /integrations/discord/inbound   *)
(* are `async def` and never await: the event loop runs one of them from   *)
(* its first line to its response before it starts another. The other     *)
(* endpoints are plain `def`: they run on worker threads and may take the  *)
(* store's lock between any two store calls of a running handler. Each     *)
(* action below is one store call (or the router's run) of a handler.      *)
(***************************************************************************)

\* the requests the backend has accepted and not yet answered: two slots
Reqs == {1, 2}

\* message texts and external message ids the requests carry
Texts == {"add task A", "hello"}

Mids == {"m1", "m2"}

IdleReq == [ep |-> "none", sid |-> "", mid |-> "", text |-> "", pc |-> "idle",
            reply |-> ""]

Pending(ep, s, mid, text) ==
    [ep |-> ep, sid |-> s, mid |-> mid, text |-> text, pc |-> "pending", reply |-> ""]

NoResp == [ep |-> "none", sid |-> "", mid |-> "", status |-> 0, ok |-> FALSE,
           deduped |-> FALSE, queued |-> FALSE, reply |-> "", attempts |-> 0,
           body |-> <<>>]

\* a response with status 200; the fields an endpoint does not return keep
\* NoResp's values
Resp(ep, s, mid, ok, deduped, queued, reply) ==
    [NoResp EXCEPT !.ep = ep, !.sid = s, !.mid = mid, !.status = 200, !.ok = ok,
                   !.deduped = deduped, !.queued = queued, !.reply = reply]

\* an exception leaves the handler: the server answers 500
ServerError(ep, s, mid) ==
    [NoResp EXCEPT !.ep = ep, !.sid = s, !.mid = mid, !.status = 500]

\* the slot a new request takes
FreeSlot == CHOOSE r \in Reqs : req[r].pc = "idle" /\ \A q \in 1..(r - 1) : req[q].pc # "idle"

CanArrive == started < MaxReqs /\ \E r \in Reqs : req[r].pc = "idle"

\* variant of EventLoopFree: the coroutine endpoints run as threads do
EventLoopFree_threaded(r) == TRUE

\* The event loop runs the coroutine of request r: no other async handler
\* is between its first line and its response.
EventLoopFree(r) == \A q \in Reqs \ {r} : req[q].pc \in {"idle", "pending"}

\* reply_text and reply_text.strip()
nonBlank(reply) == reply # "" /\ strip(reply) # ""

Arrive(ep, s, mid, text) ==
    /\ CanArrive
    /\ req' = [req EXCEPT ![FreeSlot] = Pending(ep, s, mid, text)]
    /\ started' = started + 1
    /\ UNCHANGED <<store_vars, now, resp, relay_vars>>

ArriveChat == \E s \in Sessions, t \in Texts : Arrive("chat", s, "", t)

ArriveIngest == \E s \in Sessions, m \in Mids, t \in Texts : Arrive("ingest", s, m, t)

\* a message of the relay's channel that carries a command, so that its
\* reply is queued
ArriveCommand == \E m \in Mids : Arrive("ingest", RelaySession, m, "add task A")

ArriveInbound == \E m \in Mids, t \in Texts : Arrive("inbound", DiscordSessionId, m, t)

\* the handler of r ends with response rs
Finish(r, rs) ==
    /\ req' = [req EXCEPT ![r] = IdleReq]
    /\ resp' = rs

Goto(r, pc) == req' = [req EXCEPT ![r].pc = pc]

\* chat: normalized_text = payload.message.strip(); store.append(user)
ChatAppendUser(r) ==
    /\ req[r].ep = "chat" /\ req[r].pc = "pending" /\ EventLoopFree(r)
    /\ sessions' = append(req[r].sid, "user", strip(req[r].text))
    /\ req' = [req EXCEPT ![r].pc = "route", ![r].text = strip(req[r].text)]
    /\ UNCHANGED <<tasks, reminders, checkins, outbox, inbox, nextId, now, resp,
                   started, relay_vars>>

\* handle_message(text, session_id), from any of the three handlers
Route(r) ==
    /\ req[r].pc = "route" /\ EventLoopFree(r)
    /\ \E o \in handle_message(req[r].text, req[r].sid) :
          /\ tasks' = o.tasks
          /\ reminders' = o.reminders
          /\ checkins' = o.checkins
          /\ nextId' = o.nextId
          /\ IF o.kind = "raise"
             THEN Finish(r, ServerError(req[r].ep, req[r].sid, req[r].mid))
             ELSE /\ req' = [req EXCEPT ![r].reply = o.reply,
                                        ![r].pc = IF req[r].ep = "inbound"
                                                  THEN "enqueue" ELSE "assistant"]
                  /\ resp' = resp
    /\ UNCHANGED <<sessions, outbox, inbox, now, started, relay_vars>>

\* chat: store.append(assistant); return ChatResponse
ChatAppendAssistant(r) ==
    /\ req[r].ep = "chat" /\ req[r].pc = "assistant" /\ EventLoopFree(r)
    /\ sessions' = append(req[r].sid, "assistant", req[r].reply)
    /\ Finish(r, Resp("chat", req[r].sid, "", TRUE, FALSE, FALSE, req[r].reply))
    /\ UNCHANGED <<tasks, reminders, checkins, outbox, inbox, nextId, now, started,
                   relay_vars>>

\* variant of DedupGate: the delivery is logged before the id is looked up
DedupGate_logFirst(r) ==
    /\ req[r].ep \in {"ingest", "inbound"} /\ req[r].pc = "pending" /\ EventLoopFree(r)
    /\ IF has_inbound_id(req[r].sid, req[r].mid)
       THEN /\ Finish(r, Resp(req[r].ep, req[r].sid, req[r].mid, TRUE, TRUE, FALSE, ""))
            /\ inbox' = add_inbound(req[r].sid, "author", req[r].text, "discord", req[r].mid)
       ELSE Goto(r, "store") /\ resp' = resp /\ inbox' = inbox
    /\ UNCHANGED <<sessions, tasks, reminders, checkins, outbox, nextId, now, started,
                   relay_vars>>

\* discord_ingest and ingest_inbound_discord: the deduplication check
DedupGate(r) ==
    /\ req[r].ep \in {"ingest", "inbound"} /\ req[r].pc = "pending" /\ EventLoopFree(r)
    /\ IF has_inbound_id(req[r].sid, req[r].mid)
       THEN Finish(r, Resp(req[r].ep, req[r].sid, req[r].mid, TRUE, TRUE, FALSE, ""))
       ELSE Goto(r, "store") /\ resp' = resp
    /\ UNCHANGED <<store_vars, now, started, relay_vars>>

\* discord_ingest: store.add_inbound(...)
IngestAddInbound(r) ==
    /\ req[r].ep = "ingest" /\ req[r].pc = "store" /\ EventLoopFree(r)
    /\ inbox' = add_inbound(req[r].sid, "author", req[r].text, "discord", req[r].mid)
    /\ Goto(r, "user")
    /\ UNCHANGED <<sessions, tasks, reminders, checkins, outbox, nextId, now, resp,
                   started, relay_vars>>

\* discord_ingest: store.append(user)
IngestAppendUser(r) ==
    /\ req[r].ep = "ingest" /\ req[r].pc = "user" /\ EventLoopFree(r)
    /\ sessions' = append(req[r].sid, "user", req[r].text)
    /\ Goto(r, "route")
    /\ UNCHANGED <<tasks, reminders, checkins, outbox, inbox, nextId, now, resp,
                   started, relay_vars>>

\* discord_ingest: store.append(assistant)
IngestAppendAssistant(r) ==
    /\ req[r].ep = "ingest" /\ req[r].pc = "assistant" /\ EventLoopFree(r)
    /\ sessions' = append(req[r].sid, "assistant", req[r].reply)
    /\ Goto(r, "enqueue")
    /\ UNCHANGED <<tasks, reminders, checkins, outbox, inbox, nextId, now, resp,
                   started, relay_vars>>

\* the reason tag each relay endpoint queues its reply under
replyReason(ep) == IF ep = "ingest" THEN "discord_reply" ELSE "inbound_discord_reply"

\* discord_ingest and ingest_inbound_discord: queue the reply if it is not
\* blank, and answer
EnqueueReply(r) ==
    /\ req[r].ep \in {"ingest", "inbound"} /\ req[r].pc = "enqueue" /\ EventLoopFree(r)
    /\ IF nonBlank(req[r].reply)
       THEN /\ outbox' = add_outbox(req[r].sid, req[r].reply, replyReason(req[r].ep))
            /\ nextId' = nextId + 1
            /\ Finish(r, Resp(req[r].ep, req[r].sid, req[r].mid, TRUE, FALSE, TRUE,
                              req[r].reply))
       ELSE /\ UNCHANGED <<outbox, nextId>>
            /\ Finish(r, Resp(req[r].ep, req[r].sid, req[r].mid, TRUE, FALSE, FALSE, ""))
    /\ UNCHANGED <<sessions, tasks, reminders, checkins, inbox, now, started, relay_vars>>

\* ingest_inbound_discord: store.append_inbound(msg) with msg.text the
\* stripped content, then set_last_user_activity (a timestamp the model
\* does not keep)
InboundAppend(r) ==
    /\ req[r].ep = "inbound" /\ req[r].pc = "store" /\ EventLoopFree(r)
    /\ inbox' = add_inbound(req[r].sid, "author", req[r].text, "discord", req[r].mid)
    /\ Goto(r, "route")
    /\ UNCHANGED <<sessions, tasks, reminders, checkins, outbox, nextId, now, resp,
                   started, relay_vars>>

\* the ids of every entry of every session's outbox, and one no entry has
OutboxIds == UNION {{outbox[s][i].id : i \in 1..Len(outbox[s])} : s \in Sessions}

UnknownId == "nope"

\* POST /sessions/{session_id}/outbox/{message_id}/delivered
OutboxDelivered(s, id) ==
    /\ outbox' = mark_delivered(s, id)
    /\ resp' = [NoResp EXCEPT !.ep = "delivered", !.sid = s, !.mid = id, !.status = 200,
                              !.ok = (indexOf(outbox[s], id) # 0)]
    /\ UNCHANGED <<sessions, tasks, reminders, checkins, inbox, nextId, now, req,
                   started, relay_vars>>

\* POST /sessions/{session_id}/outbox/{message_id}/attempt
OutboxAttempt(s, id) ==
    /\ \A i \in 1..Len(outbox[s]) : outbox[s][i].id = id => outbox[s][i].attempts < MaxAttempts
    /\ outbox' = increment_outbox_attempt(s, id)
    /\ LET attempts == increment_outbox_attempt_result(s, id)
       IN  resp' = [NoResp EXCEPT !.ep = "attempt", !.sid = s, !.mid = id, !.status = 200,
                                  !.ok = (attempts >= 0),
                                  !.attempts = IF attempts < 0 THEN 0 ELSE attempts]
    /\ UNCHANGED <<sessions, tasks, reminders, checkins, inbox, nextId, now, req,
                   started, relay_vars>>

\* variant of ClearSession: the outbox is not popped
ClearSession_keepsOutbox(s) ==
    /\ sessions' = [sessions EXCEPT ![s] = <<>>]
    /\ tasks' = [tasks EXCEPT ![s] = <<>>]
    /\ reminders' = [reminders EXCEPT ![s] = <<>>]
    /\ checkins' = [checkins EXCEPT ![s] = <<>>]
    /\ inbox' = [inbox EXCEPT ![s] = <<>>]
    /\ resp' = [NoResp EXCEPT !.ep = "clear", !.sid = s, !.status = 200, !.ok = TRUE]
    /\ UNCHANGED <<outbox, nextId, now, req, started, relay_vars>>

\* DELETE /sessions/{session_id}: store.clear
ClearSession(s) ==
    /\ sessions' = [sessions EXCEPT ![s] = <<>>]
    /\ tasks' = [tasks EXCEPT ![s] = <<>>]
    /\ reminders' = [reminders EXCEPT ![s] = <<>>]
    /\ checkins' = [checkins EXCEPT ![s] = <<>>]
    /\ outbox' = [outbox EXCEPT ![s] = <<>>]
    /\ inbox' = [inbox EXCEPT ![s] = <<>>]
    /\ resp' = [NoResp EXCEPT !.ep = "clear", !.sid = s, !.status = 200, !.ok = TRUE]
    /\ UNCHANGED <<nextId, now, req, started, relay_vars>>

(***************************************************************************)
(* The channel relay's outbox loop (scripts/discord_full_bot.py and        *)
(* scripts/discord_reply_sender.py: poll_outbox, send_reply)               *)
(***************************************************************************)

\* GET /sessions/{session_id}/outbox: store.list_outbox with its default limit
get_outbox(s) == list_outbox(s, OutboxLimit)

RECURSIVE undeliveredOf(_)
\* [msg for msg in outbox if not msg.get("delivered", False)]
undeliveredOf(lst) ==
    IF lst = <<>> THEN <<>>
    ELSE (IF lst[1].delivered THEN <<>> ELSE <<lst[1]>>) \o undeliveredOf(Tail(lst))

\* PATCH /sessions/{session_id}/outbox/{message_id}, the request send_reply
\* reports a delivery with. main.py routes POST .../delivered and POST
\* .../attempt only; the PATCH falls to the static-files mount at "/", which
\* refuses every method but GET and HEAD (405). The store is not called.
patch_outbox(s, id) == [status |-> 405, outbox |-> outbox]

\* poll_outbox: fetch the outbox and keep the undelivered entries
RelayPoll ==
    /\ relay_pc = "poll"
    /\ resp' = [NoResp EXCEPT !.ep = "outbox", !.sid = RelaySession, !.status = 200,
                              !.ok = TRUE, !.body = get_outbox(RelaySession)]
    /\ relay_batch' = undeliveredOf(get_outbox(RelaySession))
    /\ relay_pc' = IF relay_batch' = <<>> THEN "poll" ELSE "send"
    /\ UNCHANGED <<store_vars, now, req, started, sent, failed, poller>>

\* the loop goes on to the next entry of the batch, or sleeps and polls again
RelayAdvance ==
    /\ relay_batch' = Tail(relay_batch)
    /\ relay_pc' = IF Tail(relay_batch) = <<>> THEN "poll" ELSE "send"

\* send_reply: channel.send succeeds, then the delivery is reported
RelaySendOk ==
    /\ relay_pc = "send"
    /\ strip(Head(relay_batch).text) # ""
    /\ Len(sent) < MaxSends
    /\ sent' = Append(sent, Head(relay_batch).id)
    /\ LET r == patch_outbox(RelaySession, Head(relay_batch).id)
       IN  /\ outbox' = r.outbox
           /\ resp' = [NoResp EXCEPT !.ep = "patch", !.sid = RelaySession,
                                     !.mid = Head(relay_batch).id, !.status = r.status]
    /\ RelayAdvance
    /\ UNCHANGED <<sessions, tasks, reminders, checkins, inbox, nextId, now, req, started,
                   failed, poller>>

\* send_reply: channel.send raises: the error is logged and nothing is
\* reported to the backend
RelaySendFail ==
    /\ relay_pc = "send"
    /\ Len(failed) < MaxFails
    /\ failed' = Append(failed, Head(relay_batch).id)
    /\ RelayAdvance
    /\ UNCHANGED <<store_vars, now, req, resp, started, sent, poller>>

(***************************************************************************)
(* The channel poller (scripts/discord_poller.py): one run of main() reads *)
(* the persisted last-seen id, fetches the channel's recent messages and   *)
(* posts the new ones to /integrations/discord/ingest                      *)
(***************************************************************************)

\* messages the channel holds, at most
MaxMessages == 3

\* runs of the poller, at most
MaxRuns == 2

\* _fetch_discord_messages(..., limit=10)
FetchLimit == 10

\* what users and bots write in the channel
Contents == {"hi", " "}

\* channel: the channel's messages, oldest first, ids ascending (snowflakes);
\* last_seen_id: the state file's last_seen_id, 0 when there is none;
\* fetched, posted, ingested: the last run's fetched list, the ids it
\* posted in order, and the ids whose post returned a result
NoPoller == [channel |-> <<>>, last_seen_id |-> 0, runs |-> 0, fetched |-> <<>>,
             posted |-> <<>>, ingested |-> {}]

\* reversed(lst)
reversed(lst) == [i \in 1..Len(lst) |-> lst[Len(lst) + 1 - i]]

\* the Discord API's answer: the newest `limit` messages, newest first
fetch_discord_messages(channel, limit) == reversed(lastN(channel, limit))

\* variant of messages_to_process: a message with the last-seen id is
\* skipped like an older one, and the loop goes on
RECURSIVE messages_to_process_noBreak(_, _)
messages_to_process_noBreak(lst, last_seen_id) ==
    IF lst = <<>> THEN <<>>
    ELSE LET msg == Head(lst)
         IN  IF last_seen_id # 0 /\ msg.id <= last_seen_id
             THEN messages_to_process_noBreak(Tail(lst), last_seen_id)
             ELSE IF msg.bot THEN messages_to_process_noBreak(Tail(lst), last_seen_id)
             ELSE <<msg>> \o messages_to_process_noBreak(Tail(lst), last_seen_id)

\* main, lines 122-145: the loop over reversed(messages); lst is what is
\* left of it. DISCORD_ALLOWED_USER_ID is not set.
RECURSIVE messages_to_process(_, _)
messages_to_process(lst, last_seen_id) ==
    IF lst = <<>> THEN <<>>
    ELSE LET msg == Head(lst)
         IN  IF last_seen_id # 0 /\ msg.id = last_seen_id THEN <<>>
             ELSE IF last_seen_id # 0 /\ msg.id <= last_seen_id
             THEN messages_to_process(Tail(lst), last_seen_id)
             ELSE IF msg.bot THEN messages_to_process(Tail(lst), last_seen_id)
             ELSE <<msg>> \o messages_to_process(Tail(lst), last_seen_id)

\* main, lines 155-164: the messages of the second loop that are posted
RECURSIVE with_content(_)
with_content(lst) ==
    IF lst = <<>> THEN <<>>
    ELSE (IF strip(Head(lst).content) = "" THEN <<>> ELSE <<Head(lst)>>)
         \o with_content(Tail(lst))

\* main, lines 154-191: last_ingested_id after the posts of lst, of which
\* those with an id in ok returned a result; 0 for None
RECURSIVE last_ingested_id(_, _)
last_ingested_id(lst, ok) ==
    IF lst = <<>> THEN 0
    ELSE IF lst[Len(lst)].id \in ok THEN lst[Len(lst)].id
    ELSE last_ingested_id(SubSeq(lst, 1, Len(lst) - 1), ok)

\* main(): the state p after a run in which the posts of the ids in ok
\* returned a result and the others failed. The early returns of lines
\* 115-117 and 147-149 leave the state file as it is, as the general case
\* does when nothing is posted.
main(p, ok) ==
    LET messages == fetch_discord_messages(p.channel, FetchLimit)
        posts == with_content(messages_to_process(reversed(messages), p.last_seen_id))
        last == last_ingested_id(posts, ok)
    IN  [p EXCEPT !.runs = @ + 1,
                  !.fetched = messages,
                  !.posted = [i \in 1..Len(posts) |-> posts[i].id],
                  !.ingested = {posts[i].id : i \in 1..Len(posts)} \cap ok,
                  !.last_seen_id = IF last # 0 THEN last ELSE @]

\* somebody writes in the channel
ChannelPost ==
    /\ Len(poller.channel) < MaxMessages
    /\ \E bot \in BOOLEAN, content \in Contents :
          poller' = [poller EXCEPT !.channel =
                        Append(@, [id |-> Len(@) + 1, bot |-> bot, content |-> content])]
    /\ UNCHANGED <<store_vars, now, req, resp, started, relay_pc, relay_batch, sent, failed>>

\* one run of the poller; the backend answers each post, or fails
PollerRun ==
    /\ poller.runs < MaxRuns
    /\ \E ok \in SUBSET {poller.channel[i].id : i \in 1..Len(poller.channel)} :
          poller' = main(poller, ok)
    /\ UNCHANGED <<store_vars, now, req, resp, started, relay_pc, relay_batch, sent, failed>>

Init ==
    /\ sessions = [s \in Sessions |-> <<>>]
    /\ tasks = [s \in Sessions |-> <<>>]
    /\ reminders = [s \in Sessions |-> <<>>]
    /\ checkins = [s \in Sessions |-> <<>>]
    /\ outbox = [s \in Sessions |-> <<>>]
    /\ inbox = [s \in Sessions |-> <<>>]
    /\ nextId = 0
    /\ now = 0
    /\ req = [r \in Reqs |-> IdleReq]
    /\ resp = NoResp
    /\ started = 0
    /\ relay_pc = "poll"
    /\ relay_batch = <<>>
    /\ sent = <<>>
    /\ failed = <<>>
    /\ poller = NoPoller

\* The requests of the chat and channel endpoints, with whole-session clear
Next ==
    \/ ArriveChat
    \/ ArriveIngest
    \/ ArriveInbound
    \/ \E r \in Reqs : ChatAppendUser(r)
    \/ \E r \in Reqs : Route(r)
    \/ \E r \in Reqs : ChatAppendAssistant(r)
    \/ \E r \in Reqs : DedupGate(r)
    \/ \E r \in Reqs : IngestAddInbound(r)
    \/ \E r \in Reqs : IngestAppendUser(r)
    \/ \E r \in Reqs : IngestAppendAssistant(r)
    \/ \E r \in Reqs : InboundAppend(r)
    \/ \E r \in Reqs : EnqueueReply(r)
    \/ \E s \in Sessions : ClearSession(s)

Spec == Init /\ [][Next]_vars

\* The channel ingest that fills the outbox, and the outbox's delivery
\* bookkeeping endpoints
NextOutbox ==
    \/ ArriveCommand
    \/ \E r \in Reqs : DedupGate(r)
    \/ \E r \in Reqs : IngestAddInbound(r)
    \/ \E r \in Reqs : IngestAppendUser(r)
    \/ \E r \in Reqs : Route(r)
    \/ \E r \in Reqs : IngestAppendAssistant(r)
    \/ \E r \in Reqs : EnqueueReply(r)
    \/ \E s \in Sessions, id \in OutboxIds \cup {UnknownId} : OutboxDelivered(s, id)
    \/ \E s \in Sessions, id \in OutboxIds \cup {UnknownId} : OutboxAttempt(s, id)
    \/ \E s \in Sessions : ClearSession(s)

SpecOutbox == Init /\ [][NextOutbox]_vars

\* The channel ingest that fills the outbox, and the relay's loop against it
NextRelay ==
    \/ ArriveIngest
    \/ \E r \in Reqs : DedupGate(r)
    \/ \E r \in Reqs : IngestAddInbound(r)
    \/ \E r \in Reqs : IngestAppendUser(r)
    \/ \E r \in Reqs : Route(r)
    \/ \E r \in Reqs : IngestAppendAssistant(r)
    \/ \E r \in Reqs : EnqueueReply(r)
    \/ RelayPoll
    \/ RelaySendOk
    \/ RelaySendFail

SpecRelay == Init /\ [][NextRelay]_vars

\* The channel and the runs of the poller
NextPoller == ChannelPost \/ PollerRun

SpecPoller == Init /\ [][NextPoller]_vars

\* send_reply once the log `sent` is full: the send succeeds and the delivery
\* is reported as in RelaySendOk; the log is not lengthened
RelaySendUnlogged ==
    /\ relay_pc = "send"
    /\ strip(Head(relay_batch).text) # ""
    /\ Len(sent) >= MaxSends
    /\ LET r == patch_outbox(RelaySession, Head(relay_batch).id)
       IN  /\ outbox' = r.outbox
           /\ resp' = [NoResp EXCEPT !.ep = "patch", !.sid = RelaySession,
                                     !.mid = Head(relay_batch).id, !.status = r.status]
    /\ RelayAdvance
    /\ UNCHANGED <<sessions, tasks, reminders, checkins, inbox, nextId, now, req, started,
                   sent, failed, poller>>

NextRelayLive == NextRelay \/ RelaySendUnlogged

\* The relay's loop never ends (while True: poll, send each entry, sleep):
\* a poll that can be made is made, and an entry of the batch is sent
SpecRelayLive ==
    /\ Init /\ [][NextRelayLive]_vars
    /\ WF_vars(RelayPoll) /\ WF_vars(RelaySendOk) /\ WF_vars(RelaySendUnlogged)

(***************************************************************************)
(* The proactive nudge evaluator (app/proactive.py) and the endpoints that *)
(* run it (main.py: get_proactive, proactive_tick). Both endpoints are     *)
(* plain def: they run in the thread pool, and other requests' store calls *)
(* may come between theirs.                                                *)
(***************************************************************************)

\* minutes of a day: timestamps are minutes, dates are days
DayMinutes == 1440
\* list_checkins's default limit
CheckinLimit == 7
\* open tasks from which the evaluator speaks
OpenTasksFloor == 3
\* proactive_tick's window in minutes (3600 seconds)
NudgeWindow == 60
\* the clock moves in steps of half a window
ClockStep == 30
\* steps the clock makes in a run, at most
MaxClockSteps == 2

\* datetime.date() of a timestamp
dateOf(ts) == ts \div DayMinutes

CheckinPrompt == "Quick check-in: mood? energy (1-10)? focus (1-10)?"

overdueMessage(k) == "You have " \o fmtInt(k) \o " overdue reminders. Want to review them?"

openTasksMessage(n) == "You have " \o fmtInt(n) \o " open tasks. Want to pick one to focus on?"

\* proactive_prompt, rule 1: a check-in of the listing is dated today
has_today(s) ==
    \E i \in 1..Len(list_checkins(s, CheckinLimit)) :
        dateOf(list_checkins(s, CheckinLimit)[i].ts) = dateOf(now)

\* variant of overdue_count: completed reminders are counted too
overdue_count_any(s) ==
    Cardinality({i \in 1..Len(list_reminders(s)) : list_reminders(s)[i].due_ts < now})

\* proactive_prompt, rule 2: reminders due before now and not completed
overdue_count(s) ==
    Cardinality({i \in 1..Len(list_reminders(s)) :
                    /\ list_reminders(s)[i].due_ts < now
                    /\ ~list_reminders(s)[i].completed})

\* proactive_prompt, rule 3: tasks not completed
open_tasks(s) == Cardinality({i \in 1..Len(list_tasks(s)) : ~list_tasks(s)[i].completed})

ArriveProactive == \E s \in Sessions : Arrive("proactive", s, "", "")

ArriveTick == \E s \in Sessions : Arrive("tick", s, "", "")

\* proactive_prompt has returned msg ("" for None) to the handler of request r
\* get_proactive returns it; proactive_tick returns at once when there is
\* none and goes on to the outbox otherwise
Evaluated(r, msg) ==
    IF req[r].ep = "proactive" \/ msg = ""
    THEN Finish(r, Resp(req[r].ep, req[r].sid, "", TRUE, FALSE, FALSE, msg))
    ELSE req' = [req EXCEPT ![r].pc = "last", ![r].reply = msg] /\ resp' = resp

\* proactive_prompt: store.list_checkins and rule 1
EvalCheckins(r) ==
    /\ req[r].ep \in {"proactive", "tick"} /\ req[r].pc = "pending"
    /\ IF ~has_today(req[r].sid)
       THEN Evaluated(r, CheckinPrompt)
       ELSE Goto(r, "reminders") /\ resp' = resp
    /\ UNCHANGED <<store_vars, now, started, relay_vars>>

\* proactive_prompt: store.list_reminders and rule 2
EvalReminders(r) ==
    /\ req[r].ep \in {"proactive", "tick"} /\ req[r].pc = "reminders"
    /\ IF overdue_count(req[r].sid) > 0
       THEN Evaluated(r, overdueMessage(overdue_count(req[r].sid)))
       ELSE Goto(r, "tasks") /\ resp' = resp
    /\ UNCHANGED <<store_vars, now, started, relay_vars>>

\* proactive_prompt: store.list_tasks, rule 3 and the final None
EvalTasks(r) ==
    /\ req[r].ep \in {"proactive", "tick"} /\ req[r].pc = "tasks"
    /\ IF open_tasks(req[r].sid) >= OpenTasksFloor
       THEN Evaluated(r, openTasksMessage(open_tasks(req[r].sid)))
       ELSE Evaluated(r, "")
    /\ UNCHANGED <<store_vars, now, started, relay_vars>>

\* variant of TickCheckLast: the age of the last entry is not looked at
TickCheckLast_anyAge(r) ==
    /\ req[r].ep = "tick" /\ req[r].pc = "last"
    /\ LET out == list_outbox(req[r].sid, 1)
       IN  IF out # <<>> /\ out[Len(out)].text = req[r].reply
           THEN Finish(r, Resp("tick", req[r].sid, "", TRUE, FALSE, FALSE, ""))
           ELSE Goto(r, "enqueue") /\ resp' = resp
    /\ UNCHANGED <<store_vars, now, started, relay_vars>>

\* proactive_tick: store.list_outbox(limit=1) and the comparison with the
\* last entry
TickCheckLast(r) ==
    /\ req[r].ep = "tick" /\ req[r].pc = "last"
    /\ LET out == list_outbox(req[r].sid, 1)
       IN  IF /\ out # <<>>
              /\ out[Len(out)].text = req[r].reply
              /\ now - out[Len(out)].ts < NudgeWindow
           THEN Finish(r, Resp("tick", req[r].sid, "", TRUE, FALSE, FALSE, ""))
           ELSE Goto(r, "enqueue") /\ resp' = resp
    /\ UNCHANGED <<store_vars, now, started, relay_vars>>

\* proactive_tick: store.add_outbox(reason="proactive_tick") and the response
TickEnqueue(r) ==
    /\ req[r].ep = "tick" /\ req[r].pc = "enqueue"
    /\ outbox' = add_outbox(req[r].sid, req[r].reply, "proactive_tick")
    /\ nextId' = nextId + 1
    /\ Finish(r, Resp("tick", req[r].sid, "", TRUE, FALSE, TRUE, req[r].reply))
    /\ UNCHANGED <<sessions, tasks, reminders, checkins, inbox, now, started, relay_vars>>

\* time passes: half an hour, between the handling of requests, each of
\* which reads the clock within milliseconds of its start
Advance ==
    /\ now < DayMinutes + MaxClockSteps * ClockStep
    /\ \A r \in Reqs : req[r].pc \in {"idle", "pending"}
    /\ now' = now + ClockStep
    /\ UNCHANGED <<store_vars, req, resp, started, relay_vars>>

\* tasks of a session the evaluator is tried on, at most
MaxTasks == 4

\* the n-th item of a session, as check in / remind me / add task leave it
checkinAt(n, ts) ==
    [id |-> NewId(n), mood |-> "ok", energy |-> 5, focus |-> 5, note |-> "", ts |-> ts]

reminderAt(n, due_ts, completed) ==
    [id |-> NewId(n), text |-> "X", due_ts |-> due_ts, completed |-> completed,
     ts |-> DayMinutes]

taskAt(n, completed) ==
    [id |-> NewId(n), title |-> "A", completed |-> completed, ts |-> DayMinutes]

\* check-ins of yesterday and of today
CheckinCases ==
    {<<>>,
     <<checkinAt(0, DayMinutes - ClockStep)>>,
     <<checkinAt(0, DayMinutes)>>,
     <<checkinAt(0, DayMinutes - ClockStep), checkinAt(1, DayMinutes)>>}

\* reminders set with "remind me in -10 minutes to X" (overdue at once),
\* some of them completed, and with "remind me to X" (due in an hour)
ReminderCases ==
    {<<>>,
     <<reminderAt(2, DayMinutes - 10, FALSE)>>,
     <<reminderAt(2, DayMinutes - 10, TRUE)>>,
     <<reminderAt(2, DayMinutes + DefaultHorizon, FALSE)>>,
     <<reminderAt(2, DayMinutes - 10, FALSE), reminderAt(3, DayMinutes - 10, FALSE)>>,
     <<reminderAt(2, DayMinutes - 10, TRUE), reminderAt(3, DayMinutes - 10, FALSE)>>,
     <<reminderAt(2, DayMinutes + DefaultHorizon, FALSE), reminderAt(3, DayMinutes - 10, TRUE)>>}

\* c completed tasks followed by n open ones
tasksOf(c, n) == [i \in 1..(c + n) |-> taskAt(3 + i, i <= c)]

\* A store in which the relay's session holds check-ins, reminders and tasks,
\* half an hour into the day
InitEval ==
    /\ checkins \in {[s \in Sessions |-> IF s = RelaySession THEN cs ELSE <<>>] :
                        cs \in CheckinCases}
    /\ reminders \in {[s \in Sessions |-> IF s = RelaySession THEN rs ELSE <<>>] :
                         rs \in ReminderCases}
    /\ \E c \in 0..1, n \in 0..MaxTasks :
          tasks = [s \in Sessions |-> IF s = RelaySession THEN tasksOf(c, n) ELSE <<>>]
    /\ nextId = 5 + MaxTasks
    /\ now = DayMinutes + ClockStep
    /\ sessions = [s \in Sessions |-> <<>>]
    /\ outbox = [s \in Sessions |-> <<>>]
    /\ inbox = [s \in Sessions |-> <<>>]
    /\ req = [r \in Reqs |-> IdleReq]
    /\ resp = NoResp
    /\ started = 0
    /\ relay_pc = "poll"
    /\ relay_batch = <<>>
    /\ sent = <<>>
    /\ failed = <<>>
    /\ poller = NoPoller

\* GET /sessions/{session_id}/proactive on such a store
NextEval ==
    \/ ArriveProactive
    \/ \E r \in Reqs : EvalCheckins(r)
    \/ \E r \in Reqs : EvalReminders(r)
    \/ \E r \in Reqs : EvalTasks(r)

SpecEval == InitEval /\ [][NextEval]_vars

\* the entry an earlier tick of the day's first minute queued with text
nudgeAt(n, text) ==
    [id |-> NewId(n), text |-> text, reason |-> "proactive_tick", ts |-> DayMinutes,
     delivered |-> FALSE, attempts |-> 0]

\* The relay's session at the start of a day: without a check-in (rule 1
\* speaks), with a check-in and an overdue reminder (rule 2 speaks), or with a
\* check-in only (no message); where there is a message, an earlier tick may
\* have queued it already
TickCases ==
    {[checkins |-> <<>>, reminders |-> <<>>, outbox |-> <<>>],
     [checkins |-> <<>>, reminders |-> <<>>, outbox |-> <<nudgeAt(2, CheckinPrompt)>>],
     [checkins |-> <<checkinAt(0, DayMinutes)>>,
      reminders |-> <<reminderAt(1, DayMinutes - 10, FALSE)>>, outbox |-> <<>>],
     [checkins |-> <<checkinAt(0, DayMinutes)>>,
      reminders |-> <<reminderAt(1, DayMinutes - 10, FALSE)>>,
      outbox |-> <<nudgeAt(2, overdueMessage(1))>>],
     [checkins |-> <<checkinAt(0, DayMinutes)>>, reminders |-> <<>>, outbox |-> <<>>]}

InitTick ==
    /\ \E c \in TickCases :
          /\ checkins = [s \in Sessions |-> IF s = RelaySession THEN c.checkins ELSE <<>>]
          /\ reminders = [s \in Sessions |-> IF s = RelaySession THEN c.reminders ELSE <<>>]
          /\ outbox = [s \in Sessions |-> IF s = RelaySession THEN c.outbox ELSE <<>>]
    /\ tasks = [s \in Sessions |-> <<>>]
    /\ nextId = 3
    /\ now = DayMinutes
    /\ sessions = [s \in Sessions |-> <<>>]
    /\ inbox = [s \in Sessions |-> <<>>]
    /\ req = [r \in Reqs |-> IdleReq]
    /\ resp = NoResp
    /\ started = 0
    /\ relay_pc = "poll"
    /\ relay_batch = <<>>
    /\ sent = <<>>
    /\ failed = <<>>
    /\ poller = NoPoller

\* Proactive ticks of the relay's session beside the channel ingest that
\* queues replies, the delivery reports and the clock
NextTick ==
    \/ Arrive("tick", RelaySession, "", "")
    \/ \E r \in Reqs : EvalCheckins(r)
    \/ \E r \in Reqs : EvalReminders(r)
    \/ \E r \in Reqs : EvalTasks(r)
    \/ \E r \in Reqs : TickCheckLast(r)
    \/ \E r \in Reqs : TickEnqueue(r)
    \/ ArriveCommand
    \/ \E r \in Reqs : DedupGate(r)
    \/ \E r \in Reqs : IngestAddInbound(r)
    \/ \E r \in Reqs : IngestAppendUser(r)
    \/ \E r \in Reqs : Route(r)
    \/ \E r \in Reqs : IngestAppendAssistant(r)
    \/ \E r \in Reqs : EnqueueReply(r)
    \/ \E id \in OutboxIds : OutboxDelivered(RelaySession, id)
    \/ Advance

SpecTick == InitTick /\ [][NextTick]_vars

(***************************************************************************)
(* handle_message called directly on a store, as                           *)
(* scripts/smoke_agent_parsing.py does                                     *)
(***************************************************************************)

\* the texts the router is tried on
RouterTexts ==
    {"add task A", "Add  Task  B c", " add task A ", "ADD TASK X", "add task", "todo",
     "todo list reminders", "remember to complete u1", "please add task X",
     "remind me in 10 minutes to stretch", "remind me in -10 minutes to X",
     "remind me in +5 minute to walk",
     "Remind  me  to call mom.", "remind me to list tasks", "remind me about my reminders",
     "remind me", "remind me in five minutes to X",
     "list reminders", "show my reminders and my tasks",
     "complete reminder u2", "complete reminder u1", "Complete   Reminder   u2",
     "complete reminder", "complete reminder u2 now",
     "check in", "check in: mood=good energy=7 focus=6", "check in: energy=high",
     "Check In: focus=x", "check in my tasks", "today", "Dashboard", "what's my plan",
     "list tasks", "show me my tasks", "complete u1", "complete u2", "COMPLETE  u1",
     "complete nope", "complete", "complete a b", "hello", "",
     "todo ", "remind me to !!!"}

\* The session the router is called for: new, or holding a message, the
\* task u1 and the reminder u2
InitRouter ==
    /\ \E t \in RouterTexts :
          req = [r \in Reqs |-> IF r = 1 THEN Pending("call", RelaySession, "", t)
                                ELSE IdleReq]
    /\ \E used \in BOOLEAN :
          /\ sessions = [s \in Sessions |->
                IF used /\ s = RelaySession
                THEN <<[role |-> "user", content |-> "hi", ts |-> DayMinutes]>> ELSE <<>>]
          /\ tasks = [s \in Sessions |->
                IF used /\ s = RelaySession THEN <<taskAt(0, FALSE)>> ELSE <<>>]
          /\ reminders = [s \in Sessions |->
                IF used /\ s = RelaySession
                THEN <<reminderAt(1, DayMinutes + DefaultHorizon, FALSE)>> ELSE <<>>]
    /\ checkins = [s \in Sessions |-> <<>>]
    /\ outbox = [s \in Sessions |-> <<>>]
    /\ inbox = [s \in Sessions |-> <<>>]
    /\ nextId = 2
    /\ now = DayMinutes
    /\ resp = NoResp
    /\ started = 1
    /\ relay_pc = "poll"
    /\ relay_batch = <<>>
    /\ sent = <<>>
    /\ failed = <<>>
    /\ poller = NoPoller

\* handle_message(text, session_id): its reply, or the exception it raises
RouteCall(r) ==
    /\ req[r].ep = "call" /\ req[r].pc = "pending"
    /\ \E o \in handle_message(req[r].text, req[r].sid) :
          /\ tasks' = o.tasks
          /\ reminders' = o.reminders
          /\ checkins' = o.checkins
          /\ nextId' = o.nextId
          /\ req' = [req EXCEPT ![r].reply = o.reply, ![r].pc = "done"]
          /\ resp' = [NoResp EXCEPT !.ep = "call", !.sid = req[r].sid,
                                    !.status = IF o.kind = "raise" THEN 500 ELSE 200,
                                    !.ok = (o.kind # "raise"), !.reply = o.reply]
    /\ UNCHANGED <<sessions, outbox, inbox, now, started, relay_vars>>

NextRouter == \E r \in Reqs : RouteCall(r)

SpecRouter == InitRouter /\ [][NextRouter]_vars

(***************************************************************************)
(* The database-backed store (app/db_store.py), its outbox operations      *)
(* called directly; `outbox` holds the rows of outbound_messages by        *)
(* session, in insertion order.                                            *)
(***************************************************************************)

\* rows inserted into outbound_messages in a run, at most
MaxEntries == 2

\* DatabaseStore.mark_outbox_delivered: msg.delivered = delivered
mark_outbox_delivered(s, message_id, delivered) ==
    IF indexOf(outbox[s], message_id) = 0 THEN outbox
    ELSE [outbox EXCEPT ![s][indexOf(outbox[s], message_id)].delivered = delivered]

StoreResp(op, s, id, ok) ==
    [NoResp EXCEPT !.ep = op, !.sid = s, !.mid = id, !.ok = ok]

\* DatabaseStore.add_outbox: a row with the column defaults delivered=False,
\* attempts=0
DbAddOutbox(s) ==
    /\ nextId < MaxEntries
    /\ outbox' = add_outbox(s, "Task added: A", "discord_reply")
    /\ nextId' = nextId + 1
    /\ resp' = StoreResp("add_outbox", s, NewId(nextId), TRUE)
    /\ UNCHANGED <<sessions, tasks, reminders, checkins, inbox, now, req, started,
                   relay_vars>>

\* DatabaseStore.mark_delivered
DbMarkDelivered(s, id) ==
    /\ outbox' = mark_delivered(s, id)
    /\ resp' = StoreResp("mark_delivered", s, id, indexOf(outbox[s], id) # 0)
    /\ UNCHANGED <<sessions, tasks, reminders, checkins, inbox, nextId, now, req,
                   started, relay_vars>>

\* DatabaseStore.mark_outbox_delivered
DbMarkOutboxDelivered(s, id, delivered) ==
    /\ outbox' = mark_outbox_delivered(s, id, delivered)
    /\ resp' = StoreResp("mark_outbox_delivered", s, id, indexOf(outbox[s], id) # 0)
    /\ UNCHANGED <<sessions, tasks, reminders, checkins, inbox, nextId, now, req,
                   started, relay_vars>>

\* DatabaseStore.increment_outbox_attempt, first half: the row is loaded in
\* the call's own database session (a SELECT without FOR UPDATE); the text of
\* the slot holds the attempts the loaded object carries, "" when no row has
\* the id
DbAttemptLoad(r) ==
    /\ req[r].ep = "db_attempt" /\ req[r].pc = "pending"
    /\ LET i == indexOf(outbox[req[r].sid], req[r].mid)
       IN  req' = [req EXCEPT ![r].pc = "commit",
                              ![r].text = IF i = 0 THEN ""
                                          ELSE fmtInt(outbox[req[r].sid][i].attempts)]
    /\ UNCHANGED <<store_vars, now, resp, started, relay_vars>>

\* DatabaseStore.increment_outbox_attempt, second half: msg.attempts += 1 on
\* the loaded object and db.commit(), which writes the new value of the
\* attempts column to the row; the method returns that value, or -1
DbAttemptCommit(r) ==
    /\ req[r].ep = "db_attempt" /\ req[r].pc = "commit"
    /\ LET s == req[r].sid
           i == indexOf(outbox[s], req[r].mid)
           found == req[r].text # ""
           attempts == IF found THEN natVal(req[r].text) + 1 ELSE 0
       IN  /\ outbox' = IF found /\ i # 0 THEN [outbox EXCEPT ![s][i].attempts = attempts]
                        ELSE outbox
           /\ Finish(r, [StoreResp("increment_outbox_attempt", s, req[r].mid, found)
                           EXCEPT !.attempts = attempts])
    /\ UNCHANGED <<sessions, tasks, reminders, checkins, inbox, nextId, now, started,
                   relay_vars>>

\* DatabaseStore.add_inbound for an id has_inbound_id(s, id) does not find:
\* inbound_messages has the single-column primary key id (models.py:89), so
\* the INSERT fails when a row of any session has the id, and the
\* IntegrityError leaves the method
DbAddInbound(s, id) ==
    /\ ~has_inbound_id(s, id)
    /\ IF \E t \in Sessions : has_inbound_id(t, id)
       THEN /\ inbox' = inbox
            /\ resp' = [StoreResp("add_inbound", s, id, FALSE) EXCEPT !.status = 500]
       ELSE /\ inbox' = add_inbound(s, "author", "hi", "discord", id)
            /\ resp' = StoreResp("add_inbound", s, id, TRUE)
    /\ UNCHANGED <<sessions, tasks, reminders, checkins, outbox, nextId, now, req,
                   started, relay_vars>>

NextDb ==
    \/ \E s \in Sessions : DbAddOutbox(s)
    \/ \E s \in Sessions, id \in Mids : DbAddInbound(s, id)
    \/ \E s \in Sessions, id \in OutboxIds \cup {UnknownId} : DbMarkDelivered(s, id)
    \/ \E s \in Sessions, id \in OutboxIds \cup {UnknownId}, delivered \in BOOLEAN :
          DbMarkOutboxDelivered(s, id, delivered)

SpecDb == Init /\ [][NextDb]_vars

\* An outbox of n entries of which the first k are undelivered: what n
\* channel replies and n - k delivery reports leave
outboxOf(n, k) ==
    [i \in 1..n |-> [id |-> NewId(i - 1), text |-> "Task added: A",
                     reason |-> "discord_reply", ts |-> 0,
                     delivered |-> (i > k), attempts |-> 0]]

InitListing ==
    /\ \E n \in 0..MaxOutboxLen : \E k \in 0..n :
          /\ outbox = [s \in Sessions |-> IF s = RelaySession THEN outboxOf(n, k) ELSE <<>>]
          /\ nextId = n
    /\ sessions = [s \in Sessions |-> <<>>]
    /\ tasks = [s \in Sessions |-> <<>>]
    /\ reminders = [s \in Sessions |-> <<>>]
    /\ checkins = [s \in Sessions |-> <<>>]
    /\ inbox = [s \in Sessions |-> <<>>]
    /\ now = 0
    /\ req = [r \in Reqs |-> IdleReq]
    /\ resp = NoResp
    /\ started = 0
    /\ relay_pc = "poll"
    /\ relay_batch = <<>>
    /\ sent = <<>>
    /\ failed = <<>>
    /\ poller = NoPoller

\* The relay's poll of an outbox of any length up to MaxOutboxLen
NextListing == RelayPoll

SpecListing == InitListing /\ [][NextListing]_vars
(***************************************************************************)
(* A client that posts chat messages one after another and then reads the  *)
(* proactive message, as scripts/seed_personal_state.py does               *)
(***************************************************************************)

\* requests the client sends, at most
MaxPosts == 3

\* the client has the response of its last request
ClientIdle == \A r \in Reqs : req[r].pc = "idle"

\* the client sends its next request
ClientSends(ep, s, mid, text) ==
    /\ ClientIdle
    /\ started < MaxPosts
    /\ req' = [req EXCEPT ![1] = Pending(ep, s, mid, text)]
    /\ started' = started + 1
    /\ UNCHANGED <<store_vars, now, resp, relay_vars>>

\* the id the store gives to the first item created after InitSeed
SeedNewId == NewId(5 + MaxTasks)

\* reminder commands of the client: an overdue reminder, a future one, and
\* the completion of a reminder of the session
SeedTexts ==
    {"remind me in -10 minutes to X", "remind me in 10 minutes to Y",
     "complete reminder " \o NewId(2), "complete reminder " \o SeedNewId}

\* post_chat(message, session_id)
SeedPostChat == \E t \in SeedTexts : ClientSends("chat", RelaySession, "", t)

\* get_json(f"/sessions/{session_id}/proactive")
SeedGetProactive == ClientSends("proactive", RelaySession, "", "")

\* The session has a check-in of today, up to two open tasks and the
\* reminders of one of ReminderCases
InitSeed ==
    /\ checkins = [s \in Sessions |->
                      IF s = RelaySession THEN <<checkinAt(0, DayMinutes)>> ELSE <<>>]
    /\ reminders \in {[s \in Sessions |-> IF s = RelaySession THEN rs ELSE <<>>] :
                         rs \in ReminderCases}
    /\ \E n \in 0..(OpenTasksFloor - 1) :
          tasks = [s \in Sessions |-> IF s = RelaySession THEN tasksOf(0, n) ELSE <<>>]
    /\ nextId = 5 + MaxTasks
    /\ now = DayMinutes
    /\ sessions = [s \in Sessions |-> <<>>]
    /\ outbox = [s \in Sessions |-> <<>>]
    /\ inbox = [s \in Sessions |-> <<>>]
    /\ req = [r \in Reqs |-> IdleReq]
    /\ resp = NoResp
    /\ started = 0
    /\ relay_pc = "poll"
    /\ relay_batch = <<>>
    /\ sent = <<>>
    /\ failed = <<>>
    /\ poller = NoPoller

NextSeed ==
    \/ SeedPostChat
    \/ SeedGetProactive
    \/ \E r \in Reqs : ChatAppendUser(r)
    \/ \E r \in Reqs : Route(r)
    \/ \E r \in Reqs : ChatAppendAssistant(r)
    \/ \E r \in Reqs : EvalCheckins(r)
    \/ \E r \in Reqs : EvalReminders(r)
    \/ \E r \in Reqs : EvalTasks(r)

SpecSeed == InitSeed /\ [][NextSeed]_vars

(***************************************************************************)
(* A caller of handle_message that adds tasks, lists them and completes    *)
(* them, one call after another, as scripts/smoke_agent_parsing.py does    *)
(***************************************************************************)

\* calls of handle_message in a run, at most
MaxCalls == 6

\* titles of the tasks the caller adds, in this order
TaskTitles == <<"A", "B", "C">>

\* handle_message(text, sid), after the call before it has returned
ClientCalls(text) ==
    /\ req[1].pc \in {"idle", "done"}
    /\ started < MaxCalls
    /\ req' = [req EXCEPT ![1] = Pending("call", RelaySession, "", text)]
    /\ started' = started + 1
    /\ UNCHANGED <<store_vars, now, resp, relay_vars>>

\* the caller adds the next task, lists the tasks, completes the task of an
\* id of the listing or of an id that is in no listing, sets a reminder, or
\* completes a reminder likewise
NextTasks ==
    \/ /\ Len(tasks[RelaySession]) < Len(TaskTitles)
       /\ ClientCalls("add task " \o TaskTitles[Len(tasks[RelaySession]) + 1])
    \/ ClientCalls("list tasks")
    \/ \E n \in 0..Len(TaskTitles) : ClientCalls("complete " \o NewId(n))
    \/ reminders[RelaySession] = <<>> /\ ClientCalls("remind me to seed")
    \/ \E n \in 0..Len(TaskTitles) : ClientCalls("complete reminder " \o NewId(n))
    \/ \E r \in Reqs : RouteCall(r)

SpecTasks == Init /\ [][NextTasks]_vars

(***************************************************************************)
(* Requests for one session while another session holds entities of every  *)
(* kind                                                                    *)
(***************************************************************************)

\* the session no request of this specification names
OtherSession == CHOOSE s \in Sessions : s # RelaySession

\* messages for the relay's session; u1 and u2 are the ids of the other
\* session's task and reminder
IsoTexts ==
    {"add task A", "remind me to X", "check in",
     "complete " \o NewId(0), "complete reminder " \o NewId(1)}

\* what a session holds after a chat message, 'add task A', 'remind me to
\* X', 'check in', a channel message m1 and a proactive tick
filled(s) ==
    [sessions |-> <<[role |-> "user", content |-> "hi", ts |-> DayMinutes]>>,
     tasks |-> <<taskAt(0, FALSE)>>,
     reminders |-> <<reminderAt(1, DayMinutes + DefaultHorizon, FALSE)>>,
     checkins |-> <<checkinAt(2, DayMinutes)>>,
     inbox |-> <<[id |-> "m1", source |-> "discord", author |-> "author",
                  text |-> "hi", ts |-> DayMinutes]>>,
     outbox |-> <<nudgeAt(3, CheckinPrompt)>>]

\* The other session is filled; the relay's session is empty
InitIso ==
    /\ sessions = [s \in Sessions |-> IF s = OtherSession THEN filled(s).sessions ELSE <<>>]
    /\ tasks = [s \in Sessions |-> IF s = OtherSession THEN filled(s).tasks ELSE <<>>]
    /\ reminders = [s \in Sessions |-> IF s = OtherSession THEN filled(s).reminders ELSE <<>>]
    /\ checkins = [s \in Sessions |-> IF s = OtherSession THEN filled(s).checkins ELSE <<>>]
    /\ inbox = [s \in Sessions |-> IF s = OtherSession THEN filled(s).inbox ELSE <<>>]
    /\ outbox = [s \in Sessions |-> IF s = OtherSession THEN filled(s).outbox ELSE <<>>]
    /\ nextId = 4
    /\ now = DayMinutes
    /\ req = [r \in Reqs |-> IdleReq]
    /\ resp = NoResp
    /\ started = 0
    /\ relay_pc = "poll"
    /\ relay_batch = <<>>
    /\ sent = <<>>
    /\ failed = <<>>
    /\ poller = NoPoller

\* Every endpoint that writes, called for the relay's session by a client
\* that sends one request at a time
NextIso ==
    \/ \E t \in IsoTexts : ClientSends("chat", RelaySession, "", t)
    \/ ClientSends("ingest", RelaySession, filled(OtherSession).inbox[1].id, "add task A")
    \/ ClientSends("tick", RelaySession, "", "")
    \/ \E r \in Reqs : ChatAppendUser(r)
    \/ \E r \in Reqs : Route(r)
    \/ \E r \in Reqs : ChatAppendAssistant(r)
    \/ \E r \in Reqs : DedupGate(r)
    \/ \E r \in Reqs : IngestAddInbound(r)
    \/ \E r \in Reqs : IngestAppendUser(r)
    \/ \E r \in Reqs : IngestAppendAssistant(r)
    \/ \E r \in Reqs : EnqueueReply(r)
    \/ \E r \in Reqs : EvalCheckins(r)
    \/ \E r \in Reqs : EvalReminders(r)
    \/ \E r \in Reqs : EvalTasks(r)
    \/ \E r \in Reqs : TickCheckLast(r)
    \/ \E r \in Reqs : TickEnqueue(r)
    \/ ClientIdle /\ \E id \in OutboxIds : OutboxDelivered(RelaySession, id)
    \/ ClientIdle /\ \E id \in OutboxIds : OutboxAttempt(RelaySession, id)
    \/ ClientIdle /\ ClearSession(RelaySession)

SpecIso == InitIso /\ [][NextIso]_vars

(***************************************************************************)
(* DatabaseStore: calls of increment_outbox_attempt and mark_delivered     *)
(* that run at the same time, each in its own database session             *)
(***************************************************************************)

\* The relay's session holds 1..MaxEntries outbox rows, some delivered
InitDbRace ==
    /\ \E n \in 1..MaxEntries : \E k \in 0..n :
          /\ outbox = [s \in Sessions |-> IF s = RelaySession THEN outboxOf(n, k) ELSE <<>>]
          /\ nextId = n
    /\ sessions = [s \in Sessions |-> <<>>]
    /\ tasks = [s \in Sessions |-> <<>>]
    /\ reminders = [s \in Sessions |-> <<>>]
    /\ checkins = [s \in Sessions |-> <<>>]
    /\ inbox = [s \in Sessions |-> <<>>]
    /\ now = 0
    /\ req = [r \in Reqs |-> IdleReq]
    /\ resp = NoResp
    /\ started = 0
    /\ relay_pc = "poll"
    /\ relay_batch = <<>>
    /\ sent = <<>>
    /\ failed = <<>>
    /\ poller = NoPoller

NextDbRace ==
    \/ \E id \in OutboxIds \cup {UnknownId} :
          /\ \E r \in Reqs : req[r].pc = "idle"
          /\ \A i \in 1..Len(outbox[RelaySession]) :
                outbox[RelaySession][i].id = id =>
                   outbox[RelaySession][i].attempts < MaxAttempts
          /\ req' = [req EXCEPT ![FreeSlot] = Pending("db_attempt", RelaySession, id, "")]
          /\ UNCHANGED <<store_vars, now, resp, started, relay_vars>>
    \/ \E r \in Reqs : DbAttemptLoad(r)
    \/ \E r \in Reqs : DbAttemptCommit(r)
    \/ \E id \in OutboxIds \cup {UnknownId} : DbMarkDelivered(RelaySession, id)

SpecDbRace == InitDbRace /\ [][NextDbRace]_vars

(***************************************************************************)
(* The fallback of handle_message in two steps, get_history and then       *)
(* generate_reply (agent.py:97-100), with the store operations of the      *)
(* worker-thread endpoints that are requested while the reply is being     *)
(* generated. The channel posts its messages one after another.            *)
(***************************************************************************)

\* variant of holdsLock: the lock taken by get_history is kept until
\* generate_reply has returned
holdsLock_duringReply(q) == req[q].pc = "generate"

\* Request q, stopped between two steps of its handler, holds the store's
\* lock: never, since every store method takes it in a `with` block that
\* ends before the method returns, and generate_reply is called outside any
\* store method.
holdsLock(q) == FALSE

\* threading.Lock is free for a store method to take
LockFree == \A q \in Reqs : ~holdsLock(q)

\* the text of request r matches no rule: handle_message runs its fallback
reachesFallback(r) ==
    handle_message(req[r].text, req[r].sid) = fallback(req[r].text, req[r].sid)

\* agent.py:97-98: store.get_history under the lock, then the list
\* comprehension, which raises TypeError on the first Message
GetHistoryForReply(r) ==
    /\ req[r].ep = "inbound" /\ req[r].pc = "route" /\ EventLoopFree(r)
    /\ reachesFallback(r)
    /\ LockFree
    /\ IF get_history(req[r].sid, HistoryLimit) # <<>>
       THEN Finish(r, ServerError(req[r].ep, req[r].sid, req[r].mid))
       ELSE Goto(r, "generate") /\ resp' = resp
    /\ UNCHANGED <<store_vars, now, started, relay_vars>>

\* agent.py:100: generate_reply returns; handle_message returns its result
ReplyReturns(r) ==
    /\ req[r].ep = "inbound" /\ req[r].pc = "generate"
    /\ \E reply \in generate_reply(req[r].text, req[r].sid, <<>>) :
          req' = [req EXCEPT ![r].reply = reply, ![r].pc = "enqueue"]
    /\ UNCHANGED <<store_vars, now, resp, started, relay_vars>>

\* a request is inside generate_reply
Generating == \E r \in Reqs : req[r].pc = "generate"

\* store operations of the worker-thread endpoints
ThreadDelivered(s, id) == LockFree /\ OutboxDelivered(s, id)

ThreadAttempt(s, id) == LockFree /\ OutboxAttempt(s, id)

ThreadClear(s) == LockFree /\ ClearSession(s)

\* Each session holds one undelivered outbox entry; the inbound session's
\* history is empty or holds one message
InitReply ==
    /\ \E used \in BOOLEAN :
          sessions = [s \in Sessions |->
             IF used /\ s = DiscordSessionId
             THEN <<[role |-> "user", content |-> "hi", ts |-> 0]>> ELSE <<>>]
    /\ tasks = [s \in Sessions |-> <<>>]
    /\ reminders = [s \in Sessions |-> <<>>]
    /\ checkins = [s \in Sessions |-> <<>>]
    /\ outbox = [s \in Sessions |-> outboxOf(1, 1)]
    /\ inbox = [s \in Sessions |-> <<>>]
    /\ nextId = 1
    /\ now = 0
    /\ req = [r \in Reqs |-> IdleReq]
    /\ resp = NoResp
    /\ started = 0
    /\ relay_pc = "poll"
    /\ relay_batch = <<>>
    /\ sent = <<>>
    /\ failed = <<>>
    /\ poller = NoPoller

NextReply ==
    \/ ClientIdle /\ ArriveInbound
    \/ \E r \in Reqs : DedupGate(r)
    \/ \E r \in Reqs : InboundAppend(r)
    \/ \E r \in Reqs : req[r].pc = "route" /\ ~reachesFallback(r) /\ LockFree /\ Route(r)
    \/ \E r \in Reqs : GetHistoryForReply(r)
    \/ \E r \in Reqs : ReplyReturns(r)
    \/ \E r \in Reqs : LockFree /\ EnqueueReply(r)
    \/ Generating /\ \E s \in Sessions, id \in OutboxIds \cup {UnknownId} : ThreadDelivered(s, id)
    \/ Generating /\ \E s \in Sessions, id \in OutboxIds \cup {UnknownId} : ThreadAttempt(s, id)
    \/ Generating /\ \E s \in Sessions : ThreadClear(s)

SpecReply == InitReply /\ [][NextReply]_vars

(***************************************************************************)
(* A channel that posts its messages to /integrations/discord/ingest one   *)
(* after another and may post a message again (scripts/discord_poller.py   *)
(* posts, at each run, the messages newer than its persisted last-seen id) *)
(***************************************************************************)

\* the channel posts again a message the backend holds a record of
Redeliver ==
    /\ ClientIdle
    /\ \E s \in Sessions : \E i \in 1..Len(inbox[s]) :
          req' = [req EXCEPT ![1] = Pending("ingest", s, inbox[s][i].id, inbox[s][i].text)]
    /\ UNCHANGED <<store_vars, now, resp, started, relay_vars>>

NextRedeliver ==
    \/ ClientIdle /\ ArriveIngest
    \/ Redeliver
    \/ \E r \in Reqs : DedupGate(r)
    \/ \E r \in Reqs : IngestAddInbound(r)
    \/ \E r \in Reqs : IngestAppendUser(r)
    \/ \E r \in Reqs : Route(r)
    \/ \E r \in Reqs : IngestAppendAssistant(r)
    \/ \E r \in Reqs : EnqueueReply(r)

SpecRedeliver == Init /\ [][NextRedeliver]_vars

\* The channel keeps posting the messages again, and the backend runs every
\* handler it has started to its end. Route(r) is enabled exactly when r is
\* at position "route" on a free event loop, so its weak fairness is written
\* as: that position is always left again.
SpecRedeliverLive ==
    /\ SpecRedeliver
    /\ WF_vars(Redeliver)
    /\ WF_vars(\E r \in Reqs : DedupGate(r))
    /\ WF_vars(\E r \in Reqs : IngestAddInbound(r))
    /\ WF_vars(\E r \in Reqs : IngestAppendUser(r))
    /\ []<>(~(\E r \in Reqs : req[r].pc = "route" /\ EventLoopFree(r)))
    /\ WF_vars(\E r \in Reqs : IngestAppendAssistant(r))
    /\ WF_vars(\E r \in Reqs : EnqueueReply(r))

(***************************************************************************)
(* Properties                                                              *)
(***************************************************************************)

ChannelEps == {"ingest", "inbound"}

\* the handler of request r gives its response in this step
Responds(r) == req[r].pc # "idle" /\ req'[r].pc = "idle"

\* this step is the call POST .../outbox/{id}/delivered for session s
DeliveredStep(s, id) ==
    /\ resp'.ep = "delivered" /\ resp'.sid = s /\ resp'.mid = id
    /\ req' = req /\ relay_pc' = relay_pc

\* this step is the call POST .../outbox/{id}/attempt for session s
AttemptStep(s, id) ==
    /\ resp'.ep = "attempt" /\ resp'.sid = s /\ resp'.mid = id
    /\ req' = req /\ relay_pc' = relay_pc

\* no two records of a session's inbox carry the same external id
InboxIdsUnique ==
    \A s \in Sessions : \A i, j \in 1..Len(inbox[s]) :
        i # j => inbox[s][i].id # inbox[s][j].id

\* C1: for any session and external id, the first channel ingest with the id
\* is answered admitted (deduped=false) and creates the InboundRecord, every
\* later one is answered rejected (deduped=true), and the session never
\* holds two records with the id.
C1_FirstAdmittedLaterRejected ==
    [][ /\ InboxIdsUnique'
        /\ \A r \in Reqs :
              (req[r].ep = "ingest" /\ Responds(r)) =>
                 /\ resp'.status = 200
                 /\ resp'.deduped = (req[r].pc = "pending")
                 /\ (req[r].pc = "pending") = has_inbound_id(req[r].sid, req[r].mid)
      ]_vars

\* C2: of the deliveries of one external id to one session that are in
\* flight together, at most one is past the gate (admitted, being routed),
\* and the records with the id plus the deliveries admitted but not yet
\* recorded never number more than one.
C2_AtMostOneAdmitted ==
    \A s \in Sessions, m \in Mids :
        LET past == {r \in Reqs : /\ req[r].ep \in ChannelEps
                                  /\ req[r].sid = s /\ req[r].mid = m
                                  /\ req[r].pc \notin {"idle", "pending"}}
            admitted == {r \in past : req[r].pc = "store"}
            records == {i \in 1..Len(inbox[s]) : inbox[s][i].id = m}
        IN  /\ Cardinality(past) <= 1
            /\ Cardinality(records) + Cardinality(admitted) <= 1

\* two deliveries of the same id to the same session are in flight, one
\* admitted and recorded, the other not yet started
C2_Witness ==
    \E r, q \in Reqs :
        /\ r # q
        /\ req[r].ep \in ChannelEps /\ req[q].ep \in ChannelEps
        /\ req[r].sid = req[q].sid /\ req[r].mid = req[q].mid
        /\ req[r].pc = "route" /\ req[q].pc = "pending"
        /\ has_inbound_id(req[r].sid, req[r].mid)

\* C3: a channel ingest rejected as a duplicate runs no router and changes
\* nothing in the store (history, tasks, reminders, check-ins, inbox,
\* outbox); its response reports the duplicate and no queued reply.
C3_DuplicateRejectedNoEffect ==
    [][ \A r \in Reqs :
           (/\ req[r].ep \in ChannelEps /\ req[r].pc = "pending"
            /\ has_inbound_id(req[r].sid, req[r].mid)
            /\ req'[r] # req[r]) =>
              /\ UNCHANGED store_vars
              /\ req'[r].pc = "idle"
              /\ resp'.ep = req[r].ep /\ resp'.mid = req[r].mid
              /\ resp'.status = 200 /\ resp'.ok /\ resp'.deduped
              /\ ~resp'.queued /\ resp'.reply = ""
      ]_vars

\* a duplicate was rejected in a session that holds history and a queued reply
C3_Witness ==
    /\ resp.ep \in ChannelEps /\ resp.deduped
    /\ has_inbound_id(resp.sid, resp.mid)
    /\ sessions[resp.sid] # <<>>
    /\ outbox[resp.sid] # <<>>

\* C4: the relay physically sends each OutboxEntry at most once.
C4_SentAtMostOnce ==
    \A i, j \in 1..Len(sent) : i # j => sent[i] # sent[j]

\* C5: on both relay endpoints an admitted message is appended to history as
\* a user message before it is routed, and the reply as an assistant message
\* after, before the response.
C5_HistoryFramesRouting ==
    [][ \A r \in Reqs :
           /\ (req[r].ep \in ChannelEps /\ req[r].pc = "route" /\ req'[r].pc # "route") =>
                 /\ sessions[req[r].sid] # <<>>
                 /\ sessions[req[r].sid][Len(sessions[req[r].sid])].role = "user"
                 /\ sessions[req[r].sid][Len(sessions[req[r].sid])].content = req[r].text
           /\ (req[r].ep \in ChannelEps /\ req[r].pc = "enqueue" /\ Responds(r)) =>
                 /\ sessions[req[r].sid] # <<>>
                 /\ sessions[req[r].sid][Len(sessions[req[r].sid])].role = "assistant"
                 /\ sessions[req[r].sid][Len(sessions[req[r].sid])].content = req[r].reply
      ]_vars

\* C6: an admitted channel message whose reply is not blank appends exactly
\* one entry to its session's outbox, with the reply as text, delivered=false
\* and attempts=0, after the entries the outbox held, which stay as they
\* were; a blank reply queues nothing; nothing else lengthens an outbox.
C6_ReplyEnqueuedOnce ==
    [][ /\ \A r \in Reqs :
              (req[r].ep \in ChannelEps /\ Responds(r) /\ resp'.status = 200
               /\ ~resp'.deduped) =>
                 /\ req[r].pc = "enqueue"
                 /\ \A s \in Sessions \ {req[r].sid} : outbox'[s] = outbox[s]
                 /\ IF strip(req[r].reply) # ""
                    THEN /\ resp'.queued /\ resp'.reply = req[r].reply
                         /\ Len(outbox'[req[r].sid]) = Len(outbox[req[r].sid]) + 1
                         /\ SubSeq(outbox'[req[r].sid], 1, Len(outbox[req[r].sid]))
                               = outbox[req[r].sid]
                         /\ LET e == outbox'[req[r].sid][Len(outbox'[req[r].sid])]
                            IN  /\ e.text = req[r].reply
                                /\ e.delivered = FALSE
                                /\ e.attempts = 0
                                /\ e.id \notin OutboxIds
                    ELSE /\ ~resp'.queued
                         /\ outbox' = outbox
        /\ \A s \in Sessions :
              Len(outbox'[s]) > Len(outbox[s]) =>
                 \E r \in Reqs : /\ req[r].ep \in ChannelEps /\ req[r].sid = s
                                 /\ req[r].pc = "enqueue" /\ Responds(r)
      ]_vars

\* a second reply was queued behind an earlier entry of the same outbox
C6_Witness ==
    /\ resp.ep \in ChannelEps /\ resp.queued
    /\ Len(outbox[resp.sid]) = 2
    /\ outbox[resp.sid][2].text = resp.reply
    /\ outbox[resp.sid][2].attempts = 0 /\ ~outbox[resp.sid][2].delivered

\* C7: a direct /chat call adds exactly two Messages to history, the user
\* text and then the reply, which it returns; no step of it touches the
\* inbox or the outbox.
C7_ChatAddsTwoMessages ==
    [][ \A r \in Reqs :
           /\ (req[r].ep = "chat" /\ req'[r] # req[r] /\ req[r].pc # "idle") =>
                 /\ inbox' = inbox
                 /\ outbox' = outbox
           /\ (req[r].ep = "chat" /\ Responds(r)) =>
                 /\ req[r].pc = "assistant"
                 /\ resp'.status = 200 /\ resp'.reply = req[r].reply
                 /\ sessions'[req[r].sid] =
                       Append(sessions[req[r].sid],
                              [role |-> "assistant", content |-> req[r].reply, ts |-> now])
      ]_vars

\* C8: the undelivered list the relay works from holds every entry of the
\* session's outbox with delivered=false, in creation order, whatever the
\* outbox's length.
C8_PollSeesAllUndelivered ==
    resp.ep = "outbox" => relay_batch = undeliveredOf(outbox[RelaySession])

\* C9: mark_delivered on a known entry returns true and sets delivered=true
\* on that entry, leaving its attempts, text and reason and every other entry
\* as they were; on an entry already delivered it changes nothing.
C9_MarkDeliveredIdempotent ==
    [][ \A s \in Sessions, id \in OutboxIds :
           (DeliveredStep(s, id) /\ indexOf(outbox[s], id) # 0) =>
              /\ resp'.ok
              /\ \A t \in Sessions \ {s} : outbox'[t] = outbox[t]
              /\ Len(outbox'[s]) = Len(outbox[s])
              /\ \A i \in 1..Len(outbox[s]) :
                    outbox'[s][i] = IF outbox[s][i].id = id
                                    THEN [outbox[s][i] EXCEPT !.delivered = TRUE]
                                    ELSE outbox[s][i]
              /\ (outbox[s][indexOf(outbox[s], id)].delivered => outbox' = outbox)
      ]_vars

\* an entry was reported delivered after two failed attempts, and keeps them
C9_Witness ==
    /\ resp.ep = "delivered" /\ resp.ok
    /\ \E i \in 1..Len(outbox[resp.sid]) :
          /\ outbox[resp.sid][i].id = resp.mid
          /\ outbox[resp.sid][i].delivered
          /\ outbox[resp.sid][i].attempts = MaxAttempts

\* C10: record_attempt on a known entry raises its attempts by exactly 1,
\* returns the new count and changes nothing else; and in no step does the
\* attempts of an entry that stays in the outbox decrease or go below 0.
C10_AttemptsMonotone ==
    [][ /\ \A s \in Sessions, id \in OutboxIds :
              (AttemptStep(s, id) /\ indexOf(outbox[s], id) # 0) =>
                 /\ resp'.ok
                 /\ resp'.attempts = outbox[s][indexOf(outbox[s], id)].attempts + 1
                 /\ \A t \in Sessions \ {s} : outbox'[t] = outbox[t]
                 /\ Len(outbox'[s]) = Len(outbox[s])
                 /\ \A i \in 1..Len(outbox[s]) :
                       outbox'[s][i] = IF outbox[s][i].id = id
                                       THEN [outbox[s][i] EXCEPT !.attempts = @ + 1]
                                       ELSE outbox[s][i]
        /\ \A s \in Sessions : \A i \in 1..Len(outbox[s]), j \in 1..Len(outbox'[s]) :
              outbox[s][i].id = outbox'[s][j].id =>
                 /\ outbox'[s][j].attempts >= outbox[s][i].attempts
                 /\ outbox'[s][j].attempts >= 0
      ]_vars

\* a second failed attempt was recorded on an entry, after a delivery report
C10_Witness ==
    /\ resp.ep = "attempt" /\ resp.ok /\ resp.attempts = 2
    /\ \E i \in 1..Len(outbox[resp.sid]) :
          /\ outbox[resp.sid][i].id = resp.mid
          /\ outbox[resp.sid][i].attempts = 2
          /\ outbox[resp.sid][i].delivered

\* C11: on an id that no entry of the session's outbox has, the delivered
\* call answers ok=false and the attempt call gets the sentinel -1 from the
\* store and answers ok=false with no count; both are answered normally
\* (nothing is raised) and leave the outbox of every session as it was.
C11_UnknownIdNoEffect ==
    [][ \A s \in Sessions, id \in OutboxIds \cup {UnknownId} :
           indexOf(outbox[s], id) = 0 =>
              /\ DeliveredStep(s, id) =>
                    /\ resp'.status = 200 /\ ~resp'.ok
                    /\ outbox' = outbox
              /\ AttemptStep(s, id) =>
                    /\ increment_outbox_attempt_result(s, id) = -1
                    /\ resp'.status = 200 /\ ~resp'.ok /\ resp'.attempts = 0
                    /\ outbox' = outbox
      ]_vars

\* an attempt was reported on an id unknown to a session whose outbox holds
\* an entry
C11_Witness ==
    /\ resp.ep = "attempt" /\ resp.status = 200 /\ ~resp.ok
    /\ outbox[resp.sid] # <<>>
    /\ indexOf(outbox[resp.sid], resp.mid) = 0

\* C12: delivered is monotonic: in no step of the store does an entry that
\* stays in the outbox go from delivered=true back to delivered=false.
C12_DeliveredMonotone ==
    [][ \A s \in Sessions : \A i \in 1..Len(outbox[s]), j \in 1..Len(outbox'[s]) :
           (outbox[s][i].id = outbox'[s][j].id /\ outbox[s][i].delivered) =>
              outbox'[s][j].delivered
      ]_vars

\* number of positions of the sequence ids that hold id
occurrences(ids, id) == Cardinality({i \in 1..Len(ids) : ids[i] = id})

\* C13: at every point the attempts of each entry of the relay's session
\* equals the number of failed physical sends the relay has made for it.
C13_AttemptsCountFailures ==
    \A i \in 1..Len(outbox[RelaySession]) :
        outbox[RelaySession][i].attempts = occurrences(failed, outbox[RelaySession][i].id)

\* the reminders of lst that are due before now and not completed
openOverdue(lst) == SelectSeq(lst, LAMBDA x : x.due_ts < now /\ x.completed = FALSE)

\* the items of lst that are not completed
notCompleted(lst) == SelectSeq(lst, LAMBDA x : x.completed = FALSE)

\* C16: the evaluator returns the outcome of the first applicable rule:
\* (1) no check-in dated today: the check-in prompt, whatever the reminders
\* and tasks; (2) else k > 0 overdue reminders not completed: the overdue
\* message with k; (3) else n >= 3 tasks not completed: the open-tasks message
\* with n; (4) else no message.
C16_FirstApplicableRule ==
    resp.ep = "proactive" =>
        resp.reply =
            IF \A i \in 1..Len(checkins[resp.sid]) :
                  checkins[resp.sid][i].ts \div 1440 # now \div 1440
            THEN "Quick check-in: mood? energy (1-10)? focus (1-10)?"
            ELSE IF Len(openOverdue(reminders[resp.sid])) > 0
            THEN "You have " \o ToString(Len(openOverdue(reminders[resp.sid])))
                    \o " overdue reminders. Want to review them?"
            ELSE IF Len(notCompleted(tasks[resp.sid])) >= 3
            THEN "You have " \o ToString(Len(notCompleted(tasks[resp.sid])))
                    \o " open tasks. Want to pick one to focus on?"
            ELSE ""

\* with a check-in today, one open overdue reminder beside a completed one
\* and four open tasks, the evaluation gave the overdue message with count 1
C16_Witness ==
    /\ resp.ep = "proactive"
    /\ resp.reply = "You have 1 overdue reminders. Want to review them?"
    /\ Len(reminders[resp.sid]) = 2
    /\ Len(notCompleted(tasks[resp.sid])) = 4

\* C14: a proactive tick whose evaluation yields text T answers queued=false
\* and leaves the outbox alone when the most recent entry it reads has text T
\* and is less than 60 minutes old; otherwise it appends exactly one entry
\* with text T and reason proactive_tick and answers queued=true; a tick
\* whose evaluation yields no message leaves the outbox alone.
C14_TickSuppressesRecentRepeat ==
    [][ \A r \in Reqs : (req[r].ep = "tick" /\ req'[r] # req[r]) =>
           LET s == req[r].sid
               T == req[r].reply
               n == Len(outbox[s])
               recent == /\ n > 0
                         /\ outbox[s][n].text = T
                         /\ now - outbox[s][n].ts < 60
           IN  /\ req[r].pc = "last" =>
                    IF recent
                    THEN /\ Responds(r) /\ ~resp'.queued /\ resp'.reply = ""
                         /\ outbox' = outbox
                    ELSE /\ req'[r].pc = "enqueue" /\ req'[r].reply = T
                         /\ outbox' = outbox
               /\ req[r].pc = "enqueue" =>
                    /\ Responds(r) /\ resp'.queued /\ resp'.reply = T
                    /\ T # ""
                    /\ outbox' = [outbox EXCEPT ![s] =
                          Append(@, [id |-> outbox'[s][n + 1].id, text |-> T,
                                     reason |-> "proactive_tick", ts |-> now,
                                     delivered |-> FALSE, attempts |-> 0])]
                    /\ outbox'[s][n + 1].id \notin OutboxIds
               /\ req[r].pc \in {"pending", "reminders", "tasks"} =>
                    /\ outbox' = outbox
                    /\ Responds(r) => (~resp'.queued /\ resp'.reply = "")
                    /\ ~Responds(r) /\ req'[r].pc = "last" => req'[r].reply # ""
      ]_vars

\* a tick was suppressed: it answered queued=false while the session's most
\* recent entry is a nudge half an hour old
C14_Witness ==
    /\ resp.ep = "tick" /\ resp.status = 200 /\ ~resp.queued
    /\ Len(outbox[resp.sid]) = 1
    /\ outbox[resp.sid][1].reason = "proactive_tick"
    /\ now - outbox[resp.sid][1].ts = 30

\* C15: the outbox never holds two proactive entries with identical text
\* created less than 60 minutes apart.
C15_NudgesApartInTime ==
    \A s \in Sessions : \A i, j \in 1..Len(outbox[s]) :
        (/\ i < j
         /\ outbox[s][i].reason = "proactive_tick"
         /\ outbox[s][j].reason = "proactive_tick"
         /\ outbox[s][i].text = outbox[s][j].text) =>
            outbox[s][j].ts - outbox[s][i].ts >= 60

\* x begins with p
begins(x, p) == Len(x) >= Len(p) /\ SubSeq(x, 1, Len(p)) = p

\* p occurs in x
occursIn(x, p) == \E i \in 1..(Len(x) - Len(p) + 1) : SubSeq(x, i, i + Len(p) - 1) = p

\* the words of a text, case-folded
foldedWords(t) == [i \in 1..Len(words(t)) |-> lower(words(t)[i])]

\* the number of the first rule of the command grammar that the text t
\* matches, 9 when it matches none
matchingRule(t) ==
    LET W == foldedWords(t)
        x == join(W, " ")
    IN  IF begins(x, "add task") \/ begins(x, "todo") \/ begins(x, "remember to") THEN 1
        ELSE IF \/ /\ Len(W) >= 7 /\ W[1] = "remind" /\ W[2] = "me" /\ W[3] = "in"
                   /\ isSignedInt(W[4]) /\ W[5] \in {"minute", "minutes"} /\ W[6] = "to"
                \/ /\ Len(W) >= 4 /\ W[1] = "remind" /\ W[2] = "me" /\ W[3] = "to"
        THEN 2
        ELSE IF occursIn(x, "list reminders") \/ occursIn(x, "my reminders") THEN 3
        ELSE IF Len(W) = 3 /\ W[1] = "complete" /\ W[2] = "reminder" THEN 4
        ELSE IF begins(x, "check in") THEN 5
        ELSE IF x \in {"today", "dashboard", "what's my plan", "whats my plan"} THEN 6
        ELSE IF occursIn(x, "list tasks") \/ occursIn(x, "my tasks") THEN 7
        ELSE IF Len(W) = 2 /\ W[1] = "complete" /\ W[2] # "reminder" THEN 8
        ELSE 9

\* the number of the handler that gave the answer, told by the answer's
\* format; 9 for the generative fallback
answeredBy(status, reply) ==
    IF status = 500 THEN (IF reply = "ValueError" THEN 5 ELSE 9)
    ELSE IF begins(reply, "[MOCK LLM]") THEN 9
    ELSE IF begins(reply, "Task added: ") THEN 1
    ELSE IF begins(reply, "Reminder set") THEN 2
    ELSE IF reply = "You have no reminders." \/ occursIn(reply, " (due ") THEN 3
    ELSE IF reply \in {"Reminder completed.", "Reminder not found."} THEN 4
    ELSE IF reply = "Check-in recorded." THEN 5
    ELSE IF begins(reply, "Open tasks: ") THEN 6
    ELSE IF reply = "You have no tasks." \/ occursIn(reply, " | ") THEN 7
    ELSE IF reply \in {"Task completed.", "Task not found."} THEN 8
    ELSE 9

\* C17: for every text the router runs the handler of the lowest-numbered
\* rule among 1-8 that the text matches, and the generative fallback exactly
\* when none matches; only that one handler runs: a collection of the store
\* changes only when the rule is one that writes to it.
C17_FirstMatchWins ==
    [][ \A r \in Reqs : (req[r].ep = "call" /\ req[r].pc = "pending" /\ req'[r].pc = "done") =>
           /\ answeredBy(resp'.status, resp'.reply) = matchingRule(req[r].text)
           /\ matchingRule(req[r].text) \notin {1, 8} => tasks' = tasks
           /\ matchingRule(req[r].text) \notin {2, 4} => reminders' = reminders
           /\ matchingRule(req[r].text) # 5 => checkins' = checkins
      ]_vars

\* a text that matches rule 2 and rule 7 was answered by the reminder handler
C17_Witness ==
    /\ req[1].pc = "done" /\ req[1].text = "remind me to list tasks"
    /\ resp.reply = "Reminder set: list tasks"
    /\ Len(reminders[RelaySession]) = 2

\* the list lst with the item of the given id, if any, marked completed
withCompleted(lst, id) ==
    [i \in 1..Len(lst) |-> IF lst[i].id = id THEN [lst[i] EXCEPT !.completed = TRUE] ELSE lst[i]]

\* C18: 'complete reminder <id>' is answered by reminder completion, changes
\* no task and completes at most the reminder of that id; 'complete <id>' with
\* id other than the word 'reminder' is answered by task completion, changes
\* no reminder and completes at most the task of that id; 'complete reminder'
\* with no id is answered by neither and completes nothing.
C18_CompletionsExclusive ==
    [][ \A r \in Reqs : (req[r].ep = "call" /\ req[r].pc = "pending" /\ req'[r].pc = "done") =>
          LET W == words(req[r].text)
              F == foldedWords(req[r].text)
              s == req[r].sid
              byReminder == resp'.reply \in {"Reminder completed.", "Reminder not found."}
              byTask == resp'.reply \in {"Task completed.", "Task not found."}
          IN  /\ (Len(F) = 3 /\ F[1] = "complete" /\ F[2] = "reminder") =>
                    /\ byReminder
                    /\ tasks' = tasks
                    /\ reminders' = [reminders EXCEPT ![s] = withCompleted(reminders[s], W[3])]
              /\ (Len(F) = 2 /\ F[1] = "complete" /\ F[2] # "reminder") =>
                    /\ byTask
                    /\ reminders' = reminders
                    /\ tasks' = [tasks EXCEPT ![s] = withCompleted(tasks[s], W[2])]
              /\ (Len(F) = 2 /\ F[1] = "complete" /\ F[2] = "reminder") =>
                    /\ ~byReminder /\ ~byTask
                    /\ tasks' = tasks /\ reminders' = reminders
      ]_vars

\* 'complete reminder u2' completed the reminder u2 and left the task u1 open
C18_Witness ==
    /\ req[1].pc = "done" /\ req[1].text = "complete reminder u2"
    /\ resp.reply = "Reminder completed."
    /\ \E i \in 1..Len(reminders[RelaySession]) :
          reminders[RelaySession][i].id = "u2" /\ reminders[RelaySession][i].completed
    /\ \E i \in 1..Len(tasks[RelaySession]) :
          tasks[RelaySession][i].id = "u1" /\ ~tasks[RelaySession][i].completed

\* C19: for every text 'add task X', in any letter case and with any amount
\* of whitespace between and around the words, X not empty, exactly one Task
\* is added to the session, with title X after whitespace normalization and
\* completed = FALSE, and the answer is 'Task added: X'.
C19_AddTaskTitle ==
    [][ \A r \in Reqs : (req[r].ep = "call" /\ req[r].pc = "pending" /\ req'[r].pc = "done") =>
          LET W == words(req[r].text)
              F == foldedWords(req[r].text)
              s == req[r].sid
              X == join(SubSeq(W, 3, Len(W)), " ")
          IN  (Len(F) >= 3 /\ F[1] = "add" /\ F[2] = "task") =>
                 /\ Len(tasks'[s]) = Len(tasks[s]) + 1
                 /\ SubSeq(tasks'[s], 1, Len(tasks[s])) = tasks[s]
                 /\ tasks'[s][Len(tasks'[s])].title = X
                 /\ tasks'[s][Len(tasks'[s])].completed = FALSE
                 /\ resp'.reply = "Task added: " \o X
      ]_vars

\* C20: a check-in message whose energy or focus value is not an integer is
\* still answered with a plain text reply: no exception reaches the caller
\* of handle_message.
C20_CheckinNeverRaises ==
    [][ \A r \in Reqs : (req[r].ep = "call" /\ req[r].pc = "pending" /\ req'[r].pc = "done") =>
          (begins(join(foldedWords(req[r].text), " "), "check in") =>
              resp'.status = 200 /\ resp'.ok /\ resp'.reply # "")
      ]_vars

\* the text is of the form 'remind me in N minute(s) to X'
isTimedReminder(t) ==
    LET F == foldedWords(t)
    IN  /\ Len(F) >= 7 /\ F[1] = "remind" /\ F[2] = "me" /\ F[3] = "in"
        /\ isSignedInt(F[4]) /\ F[5] \in {"minute", "minutes"} /\ F[6] = "to"

\* the signed integer a numeral of the text denotes
signedValue(n) ==
    IF Head(n) = "-" THEN 0 - natVal(Tail(n))
    ELSE IF Head(n) = "+" THEN natVal(Tail(n)) ELSE natVal(n)

RouteStep(r) == req[r].ep = "chat" /\ req[r].pc = "route" /\ req'[r].pc # "route"

\* C22: in a session with a check-in of today and fewer than 3 open tasks,
\* 'remind me in -10 minutes to X' adds one to the number of reminders that
\* are overdue and not completed, 'complete reminder <id>' of such a reminder
\* takes one off, and the proactive evaluation gives the overdue-reminders
\* message with that number whenever it is positive, and no message otherwise.
C22_OverdueCountEndToEnd ==
    [][ \A r \in Reqs :
          LET s == req[r].sid
              W == words(req[r].text)
              k == Len(openOverdue(reminders[s]))
              k2 == Len(SelectSeq(reminders'[s],
                                  LAMBDA x : x.due_ts < now' /\ x.completed = FALSE))
          IN  /\ (RouteStep(r) /\ req[r].text = "remind me in -10 minutes to X") => k2 = k + 1
              /\ (RouteStep(r) /\ Len(W) = 3 /\ W[1] = "complete" /\ W[2] = "reminder"
                  /\ \E i \in 1..Len(reminders[s]) :
                        /\ reminders[s][i].id = W[3]
                        /\ reminders[s][i].due_ts < now /\ ~reminders[s][i].completed)
                 => k2 = k - 1
              /\ (req[r].ep = "proactive" /\ Responds(r)) =>
                    resp'.reply = IF k > 0
                                  THEN "You have " \o ToString(k)
                                          \o " overdue reminders. Want to review them?"
                                  ELSE ""
      ]_vars

\* the client set an overdue reminder in a session that had none and was
\* told of 1 overdue reminder
C22_Witness ==
    /\ resp.ep = "proactive"
    /\ resp.reply = "You have 1 overdue reminders. Want to review them?"
    /\ Len(reminders[RelaySession]) = 1
    /\ reminders[RelaySession][1].id = SeedNewId
    /\ reminders[RelaySession][1].due_ts = now - 10
    /\ Len(sessions[RelaySession]) = 2

\* this step is the call of handle_message the caller made for request r
CallStep(r) == req[r].ep = "call" /\ req[r].pc = "pending" /\ req'[r].pc = "done"

\* the listing of the tasks ts: one line per task, in the order of ts
RECURSIVE listingOf(_)
listingOf(ts) ==
    IF ts = <<>> THEN ""
    ELSE ts[1].id \o " | " \o (IF ts[1].completed THEN "v" ELSE "*") \o " " \o ts[1].title
         \o (IF Len(ts) = 1 THEN "" ELSE "\n" \o listingOf(Tail(ts)))

\* C23: in a session that starts empty, 'add task T' appends one open task
\* titled T with a new id; 'list tasks' answers with one line per task in
\* insertion order, each with the task's id, mark and title; 'complete <id>'
\* of a task marks exactly that task completed and leaves ids, titles and
\* the other tasks as they were.  So after adding A, B, C the listing has
\* three lines, all open, and after a completion exactly one line changes.
C23_ListAfterAddAndComplete ==
    [][ \A r \in Reqs : CallStep(r) =>
          LET s == req[r].sid
              W == words(req[r].text)
          IN  /\ (Len(W) = 3 /\ W[1] = "add" /\ W[2] = "task") =>
                    /\ Len(tasks'[s]) = Len(tasks[s]) + 1
                    /\ SubSeq(tasks'[s], 1, Len(tasks[s])) = tasks[s]
                    /\ tasks'[s][Len(tasks'[s])].title = W[3]
                    /\ ~tasks'[s][Len(tasks'[s])].completed
                    /\ \A i \in 1..Len(tasks[s]) :
                          tasks[s][i].id # tasks'[s][Len(tasks'[s])].id
              /\ (req[r].text = "list tasks" /\ tasks[s] # <<>>) =>
                    /\ resp'.reply = listingOf(tasks[s])
                    /\ tasks' = tasks
              /\ (Len(W) = 2 /\ W[1] = "complete") =>
                    tasks' = [tasks EXCEPT ![s] = withCompleted(tasks[s], W[2])]
      ]_vars

\* the caller added A, B, C, completed the second task and listed the tasks
C23_Witness ==
    /\ req[1].pc = "done" /\ req[1].text = "list tasks"
    /\ resp.reply = "u1 | * A\nu2 | v B\nu3 | * C"
    /\ Len(tasks[RelaySession]) = 3

\* the ids of the items of lst
idsOf(lst) == {lst[i].id : i \in 1..Len(lst)}

\* C24: 'complete <id>' with an id of no task of the session is answered
\* 'Task not found.', and 'complete reminder <id>' with an id of no reminder
\* of the session 'Reminder not found.'; neither raises, and no task and no
\* reminder changes.
C24_UnknownIdNotFound ==
    [][ \A r \in Reqs : CallStep(r) =>
          LET s == req[r].sid
              W == words(req[r].text)
              F == foldedWords(req[r].text)
          IN  /\ (Len(F) = 2 /\ F[1] = "complete" /\ F[2] # "reminder"
                  /\ W[2] \notin idsOf(tasks[s])) =>
                    /\ resp'.status = 200 /\ resp'.reply = "Task not found."
                    /\ tasks' = tasks /\ reminders' = reminders
              /\ (Len(F) = 3 /\ F[1] = "complete" /\ F[2] = "reminder"
                  /\ W[3] \notin idsOf(reminders[s])) =>
                    /\ resp'.status = 200 /\ resp'.reply = "Reminder not found."
                    /\ tasks' = tasks /\ reminders' = reminders
      ]_vars

\* 'complete nope' in a session with an open task: not found, task still open
C24_Witness ==
    /\ req[1].pc = "done" /\ req[1].text = "complete nope"
    /\ resp.status = 200 /\ resp.reply = "Task not found."
    /\ tasks[RelaySession] # <<>> /\ ~tasks[RelaySession][1].completed

\* C25: in every step each Task and each Reminder keeps its place and its id,
\* and one that is completed stays completed; completing a completed item is
\* answered as a completion and changes nothing.
C25_CompletedMonotone ==
    [][ /\ \A s \in Sessions :
             /\ Len(tasks'[s]) >= Len(tasks[s])
             /\ Len(reminders'[s]) >= Len(reminders[s])
             /\ \A i \in 1..Len(tasks[s]) :
                   /\ tasks'[s][i].id = tasks[s][i].id
                   /\ tasks[s][i].completed => tasks'[s][i].completed
             /\ \A i \in 1..Len(reminders[s]) :
                   /\ reminders'[s][i].id = reminders[s][i].id
                   /\ reminders[s][i].completed => reminders'[s][i].completed
        /\ \A r \in Reqs : CallStep(r) =>
             LET s == req[r].sid
                 W == words(req[r].text)
             IN  /\ (Len(W) = 2 /\ W[1] = "complete"
                     /\ \E i \in 1..Len(tasks[s]) :
                           tasks[s][i].id = W[2] /\ tasks[s][i].completed) =>
                       resp'.reply = "Task completed." /\ tasks' = tasks
                 /\ (Len(W) = 3 /\ W[1] = "complete" /\ W[2] = "reminder"
                     /\ \E i \in 1..Len(reminders[s]) :
                           reminders[s][i].id = W[3] /\ reminders[s][i].completed) =>
                       resp'.reply = "Reminder completed." /\ reminders' = reminders
      ]_vars

\* a completed task and a completed reminder, after further calls
C25_Witness ==
    /\ req[1].pc = "done" /\ req[1].text = "complete reminder u2"
    /\ resp.reply = "Reminder completed."
    /\ started = MaxCalls
    /\ Len(tasks[RelaySession]) = 1 /\ tasks[RelaySession][1].completed
    /\ Len(reminders[RelaySession]) = 1 /\ reminders[RelaySession][1].completed

\* C26: no operation invoked for a session changes a Message, Task, Reminder,
\* CheckIn, InboundRecord or OutboxEntry of another session, and an id of
\* another session's entity is unknown under this one: completing it is
\* answered 'not found' and marking it delivered or attempted fails.
C26_SessionsIsolated ==
    [][ /\ \A b \in Sessions \ {RelaySession} :
             /\ sessions'[b] = sessions[b] /\ tasks'[b] = tasks[b]
             /\ reminders'[b] = reminders[b] /\ checkins'[b] = checkins[b]
             /\ inbox'[b] = inbox[b] /\ outbox'[b] = outbox[b]
        /\ \A r \in Reqs :
             (req[r].sid = RelaySession /\ req[r].pc = "route" /\ req'[r].pc # "route") =>
                LET W == words(req[r].text)
                IN  /\ (Len(W) = 2 /\ W[1] = "complete"
                        /\ W[2] \notin idsOf(tasks[RelaySession])) =>
                           req'[r].reply = "Task not found."
                    /\ (Len(W) = 3 /\ W[1] = "complete" /\ W[2] = "reminder"
                        /\ W[3] \notin idsOf(reminders[RelaySession])) =>
                           req'[r].reply = "Reminder not found."
        /\ \A id \in idsOf(outbox[OtherSession]) \ idsOf(outbox[RelaySession]) :
             (DeliveredStep(RelaySession, id) \/ AttemptStep(RelaySession, id)) => ~resp'.ok
      ]_vars

\* the other session's task id was used under the relay's session, which
\* has a task of its own by then; the other session is as it was
C26_Witness ==
    /\ resp.ep = "chat" /\ resp.sid = RelaySession /\ resp.reply = "Task not found."
    /\ tasks[RelaySession] # <<>>
    /\ tasks[OtherSession] = <<taskAt(0, FALSE)>>
    /\ outbox[OtherSession] = <<nudgeAt(3, CheckinPrompt)>>

\* C27: an external message id that a session has not admitted is admitted
\* there, whatever the other sessions have admitted: the store adds the
\* record to that session and does not fail.  (DatabaseStore)
C27_InboundIdPerSession ==
    [][ \A s \in Sessions, id \in Mids :
          (resp'.ep = "add_inbound" /\ resp'.sid = s /\ resp'.mid = id /\ resp' # resp
           /\ id \notin idsOf(inbox[s])) =>
             /\ resp'.ok
             /\ id \in idsOf(inbox'[s])
      ]_vars

\* C27, in-memory store: the channel ingest admits in the relay's session an
\* id the other session holds: it is not answered as a duplicate and the
\* record is added.
C27_InboundIdPerSessionMemory ==
    [][ \A r \in Reqs :
          (req[r].ep = "ingest" /\ req[r].pc = "pending" /\ req'[r].pc # "pending"
           /\ req[r].mid \notin idsOf(inbox[req[r].sid])) =>
             req'[r].pc = "store"
      ]_vars

\* the relay's session admitted the id m1 that the other session holds
C27_WitnessMemory ==
    /\ "m1" \in idsOf(inbox[RelaySession])
    /\ "m1" \in idsOf(inbox[OtherSession])
    /\ resp.ep = "ingest" /\ resp.mid = "m1" /\ ~resp.deduped

\* this step is the call DELETE /sessions/{s}
ClearStep(s) == resp'.ep = "clear" /\ resp'.sid = s /\ req' = req

\* C28: whole-session clear is one step: whatever requests are in flight,
\* the step in which clear runs leaves the session without any Message, Task,
\* Reminder, CheckIn, InboundRecord or OutboxEntry, so no state shows a partly
\* cleared session and nothing created before the clear is there after it.
C28_ClearIsAtomic ==
    [][ \A s \in Sessions : ClearStep(s) =>
          /\ sessions'[s] = <<>> /\ tasks'[s] = <<>> /\ reminders'[s] = <<>>
          /\ checkins'[s] = <<>> /\ inbox'[s] = <<>> /\ outbox'[s] = <<>>
      ]_vars

\* the session was cleared while an ingest for it was between its call of
\* handle_message, which had added a task, and its enqueue of the reply
C28_Witness ==
    /\ resp.ep = "clear" /\ resp.sid = RelaySession
    /\ \E r \in Reqs : req[r].sid = RelaySession /\ req[r].pc = "enqueue"
    /\ sessions[RelaySession] = <<>> /\ tasks[RelaySession] = <<>>
    /\ inbox[RelaySession] = <<>> /\ outbox[RelaySession] = <<>>
    /\ nextId > 0

\* C29: every record_attempt call that completes on an entry raises the
\* entry's attempts by exactly one, whatever other record_attempt and
\* mark_delivered calls run beside it, and leaves delivered as it is; a
\* completed mark_delivered leaves delivered = TRUE.  (DatabaseStore)
C29_NoLostAttempt ==
    [][ \A r \in Reqs :
          (req[r].ep = "db_attempt" /\ req[r].pc = "commit" /\ req'[r].pc = "idle") =>
             LET s == req[r].sid
                 i == indexOf(outbox[s], req[r].mid)
             IN  i # 0 =>
                    /\ outbox'[s][i].attempts = outbox[s][i].attempts + 1
                    /\ outbox'[s][i].delivered = outbox[s][i].delivered
      ]_vars

\* C29, in-memory store: the attempt endpoint raises attempts by exactly one
\* and keeps delivered; the delivered endpoint sets delivered and keeps
\* attempts.
C29_NoLostAttemptMemory ==
    [][ \A s \in Sessions, id \in OutboxIds :
          LET i == indexOf(outbox[s], id)
          IN  i # 0 =>
                /\ AttemptStep(s, id) =>
                      /\ outbox'[s][i].attempts = outbox[s][i].attempts + 1
                      /\ outbox'[s][i].delivered = outbox[s][i].delivered
                /\ DeliveredStep(s, id) =>
                      /\ outbox'[s][i].delivered
                      /\ outbox'[s][i].attempts = outbox[s][i].attempts
      ]_vars

\* C30: when a message reaches the generative fallback and the provider's
\* call fails, the local fallback reply takes its place: the handle_message
\* call of a /chat request whose text matches no rule returns a text, the
\* mock's among the possible ones, and the request is not answered with an
\* error; the chat then appends that reply to the history.
C30_ProviderFailureFallsBack ==
    [][ \A r \in Reqs :
          /\ (req[r].ep = "chat" /\ req[r].pc = "route" /\ req'[r].pc # "route"
              /\ matchingRule(req[r].text) = 9) =>
                /\ req'[r].pc = "assistant"
                /\ req'[r].reply \in ProviderReplies \cup
                      {generate_mock(req[r].text, req[r].sid, <<>>),
                       generate_mock(req[r].text, req[r].sid, sessions[req[r].sid])}
          /\ (req[r].ep = "chat" /\ req[r].pc = "assistant" /\ Responds(r)) =>
                /\ resp'.status = 200
                /\ sessions'[req[r].sid] # <<>>
                /\ sessions'[req[r].sid][Len(sessions'[req[r].sid])].content = req[r].reply
      ]_vars

\* C31: when the text matches no command rule, the call of handle_message
\* returns what the generative-reply collaborator gives for the raw text and
\* the session's most recent min(12, n) messages in append order (the
\* provider's answer, or the mock's for that history), and the call writes
\* nothing to the store.
C31_FallbackHandsHistory ==
    [][ \A r \in Reqs :
          (CallStep(r) /\ matchingRule(req[r].text) = 9) =>
             LET s == req[r].sid
                 n == Len(sessions[s])
                 k == IF n < 12 THEN n ELSE 12
                 history == [i \in 1..k |-> sessions[s][n - k + i]]
             IN  /\ resp'.status = 200
                 /\ resp'.reply \in ProviderReplies \cup
                                      {generate_mock(req[r].text, s, history)}
                 /\ UNCHANGED store_vars
      ]_vars

\* C32: a text that begins with 'remind me' and matches neither reminder
\* pattern creates no reminder and raises no error: the call writes nothing
\* to the store and is answered by the first later rule the text matches
\* (the listing of reminders or of tasks), or by the fallback's reply.
C32_RemindMeFallsThrough ==
    [][ \A r \in Reqs :
          (/\ CallStep(r)
           /\ begins(join(foldedWords(req[r].text), " "), "remind me")
           /\ matchingRule(req[r].text) # 2) =>
             /\ resp'.status = 200
             /\ reminders' = reminders
             /\ UNCHANGED store_vars
             /\ matchingRule(req[r].text) \in {3, 7, 9}
             /\ answeredBy(resp'.status, resp'.reply) = matchingRule(req[r].text)
      ]_vars

C34_TickCheckAndEnqueueAtomic ==
    [][ \A r \in Reqs :
          (req[r].ep = "tick" /\ req[r].pc = "enqueue" /\ req'[r].pc = "idle") =>
             LET out == outbox[req[r].sid]
             IN  ~(/\ out # <<>>
                   /\ out[Len(out)].text = req[r].reply
                   /\ out[Len(out)].reason = "proactive_tick"
                   /\ now - out[Len(out)].ts < NudgeWindow)
      ]_vars

\* C35: an entry of the relay's session that the relay has physically sent
\* is eventually marked delivered: the relay's report of the delivery
\* reaches a backend operation that sets the flag.
C35_SentIsEventuallyDelivered ==
    \A i \in 1..MaxReqs :
       (/\ Len(outbox[RelaySession]) >= i
        /\ \E j \in 1..Len(sent) : sent[j] = outbox[RelaySession][i].id)
       ~> (Len(outbox[RelaySession]) >= i /\ outbox[RelaySession][i].delivered)

\* C36: no admitted channel message is lost: every message for which an
\* inbound record was created eventually has its reply on the outbox (the
\* k-th record of a session is followed by a k-th outbox entry), also when
\* the processing failed after the record was created and the channel posts
\* the message again.
C36_AdmittedIsAnswered ==
    \A s \in Sessions : \A k \in 1..MaxReqs :
       (Len(inbox[s]) >= k) ~> (Len(outbox[s]) >= k)

\* C36, the case of the redelivery alone: once the repeated post of the k-th
\* admitted message of a session has been answered as a duplicate, a k-th
\* reply is eventually on the session's outbox.
C36_RedeliveredIsAnswered ==
    \A s \in Sessions : \A k \in 1..MaxReqs :
       (/\ Len(inbox[s]) >= k
        /\ resp.ep = "ingest" /\ resp.deduped /\ resp.sid = s
        /\ resp.mid = inbox[s][k].id)
       ~> (Len(outbox[s]) >= k)

\* C37: a confirmation implies the write: whenever handle_message returns
\* 'Task added: ...' the session holds one task more than before the call,
\* and whenever it returns 'Reminder set: ...' or 'Reminder set in N
\* minutes: ...' it holds one reminder more, also when the title or text is
\* empty after trimming.
C37_ConfirmationImpliesWrite ==
    [][ \A r \in Reqs : CallStep(r) =>
          LET s == req[r].sid
          IN  /\ begins(resp'.reply, "Task added: ") =>
                    Len(tasks'[s]) = Len(tasks[s]) + 1
              /\ begins(resp'.reply, "Reminder set") =>
                    Len(reminders'[s]) = Len(reminders[s]) + 1
      ]_vars

\* the messages of lst with an id above last, not written by a bot and not
\* blank, in the order of lst
RECURSIVE newUserMessages(_, _)
newUserMessages(lst, last) ==
    IF lst = <<>> THEN <<>>
    ELSE (IF Head(lst).id > last /\ ~Head(lst).bot /\ Head(lst).content \notin {"", " "}
          THEN <<Head(lst).id>> ELSE <<>>)
         \o newUserMessages(Tail(lst), last)

\* C38: a run of the poller posts to the ingest endpoint every message of
\* the fetched window (the channel's newest 10) that is newer than the
\* persisted last-seen id, not from a bot and not empty, oldest first, also
\* when the last-seen message is still in the window; and the last-seen id
\* it persists is below every message whose post failed.
C38_PollerPostsEveryNewMessage ==
    [][ poller'.runs = poller.runs + 1 =>
          LET n == Len(poller.channel)
              k == IF n < 10 THEN n ELSE 10
              window == [i \in 1..k |-> poller.channel[n - k + i]]
          IN  /\ poller'.posted = newUserMessages(window, poller.last_seen_id)
              /\ \A i \in 1..Len(poller'.posted) :
                    poller'.posted[i] \notin poller'.ingested =>
                       poller'.last_seen_id < poller'.posted[i]
      ]_vars
====
